---- MODULE Spec2Model ----
(***************************************************************************)
(* Verification model of the distributed-der control plane:               *)
(*   - sim_core::tick_asset, the per-asset physics tick;                   *)
(*   - der_headend's site allocator (compute_site_allocations) and the     *)
(*     agent's copy of it (compute_allocations);                           *)
(*   - der_headend's simulator state, stream registry, pending setpoints,  *)
(*     the per-connection receive task and the dispatch handler.           *)
(*                                                                         *)
(* f64 values are modelled as exact rationals <<n, d>> with d > 0 in       *)
(* lowest terms: the model is the real-number semantics of the code,       *)
(* without IEEE rounding.                                                  *)
(***************************************************************************)
EXTENDS Integers, Sequences, FiniteSets, TLC

----------------------------------------------------------------------------
(* Rational arithmetic (stands for f64).                                   *)

Abs(i) == IF i < 0 THEN -i ELSE i

RECURSIVE Gcd(_, _)
Gcd(a, b) == IF b = 0 THEN a ELSE Gcd(b, a % b)

Norm(n, d) ==
    LET g == Gcd(Abs(n), Abs(d))
        s == IF d < 0 THEN -1 ELSE 1
    IN  IF n = 0 THEN <<0, 1>> ELSE <<s * (n \div g), s * (d \div g)>>

Lcm(a, b) == (a \div Gcd(a, b)) * b

Q(n, d) == Norm(n, d)
Z(i) == <<i, 1>>
R0 == <<0, 1>>

RAdd(x, y) ==
    LET l == Lcm(x[2], y[2])
    IN  Norm(x[1] * (l \div x[2]) + y[1] * (l \div y[2]), l)
RNeg(x) == <<-x[1], x[2]>>
RSub(x, y) == RAdd(x, RNeg(y))
RMul(x, y) ==
    LET g1 == Gcd(Abs(x[1]), y[2])
        g2 == Gcd(Abs(y[1]), x[2])
        a == IF x[1] = 0 THEN 0 ELSE x[1] \div g1
        b == IF y[1] = 0 THEN 0 ELSE y[1] \div g2
        c == IF x[1] = 0 THEN 1 ELSE x[2] \div g2
        e == IF y[1] = 0 THEN 1 ELSE y[2] \div g1
    IN  IF x[1] = 0 \/ y[1] = 0 THEN R0 ELSE Norm(a * b, c * e)
RInv(x) == IF x[1] < 0 THEN <<-x[2], -x[1]>> ELSE <<x[2], x[1]>>
RDiv(x, y) == RMul(x, RInv(y))
RAbs(x) == <<Abs(x[1]), x[2]>>
\* sign of x - y, over the common denominator
RCmp(x, y) ==
    LET l == Lcm(x[2], y[2])
    IN  x[1] * (l \div x[2]) - y[1] * (l \div y[2])
RLt(x, y) == IF x[2] = y[2] THEN x[1] < y[1] ELSE RCmp(x, y) < 0
RLe(x, y) == IF x[2] = y[2] THEN x[1] <= y[1] ELSE RCmp(x, y) <= 0
RGt(x, y) == RLt(y, x)
RGe(x, y) == RLe(y, x)

\* f64::clamp: `if self < min { min } else if self > max { max } else { self }`
RClamp(x, lo, hi) == IF RLt(x, lo) THEN lo ELSE IF RGt(x, hi) THEN hi ELSE x
\* f64::max
RMax(x, y) == IF RLt(x, y) THEN y ELSE x

RECURSIVE RSum(_)
RSum(s) == IF s = <<>> THEN R0 ELSE RAdd(s[1], RSum(Tail(s)))

\* eps = 1e-6 (MWh) and tolerance = 1e-6 (MW)
eps == <<1, 1000000>>
tolerance == <<1, 1000000>>
\* |x| > 1e-6 without forming n * 10^6:  n/d > 1/10^6  <=>  n > d div 10^6
GtTol(x) == Abs(x[1]) > (x[2] \div tolerance[2])
\* x <= f64::EPSILON (2^-52).  Every positive rational the model can hold
\* has a denominator below 2^31, hence exceeds 2^-52.
LeF64Epsilon(x) == x[1] <= 0

----------------------------------------------------------------------------
(* Asset catalogue.  Assets are records                                    *)
(*   [id, site_id, capacity_mwhr, max_mw, min_mw, min_soc_pct,             *)
(*    max_soc_pct, efficiency, ramp_rate_mw_per_min]                       *)
(* and satisfy the data-model invariants  min_mw <= 0 <= max_mw,           *)
(* 0 <= min_soc_pct <= max_soc_pct <= 100, capacity_mwhr >= 0.             *)

MkAsset(id, site, cap, lo, hi, minPct, maxPct, eff, ramp) ==
    [id |-> id, site_id |-> site, capacity_mwhr |-> cap, max_mw |-> hi,
     min_mw |-> lo, min_soc_pct |-> minPct, max_soc_pct |-> maxPct,
     efficiency |-> eff, ramp_rate_mw_per_min |-> ramp]

\* soc_bounds: (min_soc_mwhr, max_soc_mwhr) as a pair
soc_bounds(asset) ==
    LET cap == RMax(asset.capacity_mwhr, R0)
        min_pct == RClamp(asset.min_soc_pct, R0, Z(100))
        max_pct == RClamp(asset.max_soc_pct, R0, Z(100))
        min_mwhr == RDiv(RMul(cap, min_pct), Z(100))
        max_mwhr == RDiv(RMul(cap, max_pct), Z(100))
    IN  IF RLe(min_mwhr, max_mwhr) THEN <<min_mwhr, max_mwhr>> ELSE <<R0, cap>>

initial_soc_mwhr(asset) ==
    LET cap == RMax(asset.capacity_mwhr, R0)
        min_pct == RClamp(asset.min_soc_pct, R0, Z(100))
        max_pct == RClamp(asset.max_soc_pct, R0, Z(100))
    IN  IF RLe(min_pct, max_pct)
        THEN RDiv(RMul(cap, RAdd(min_pct, max_pct)), Z(200))
        ELSE RMul(cap, Q(1, 2))

clamp_soc(asset, soc_mwhr) ==
    LET b == soc_bounds(asset) IN RClamp(soc_mwhr, b[1], b[2])

MkState(soc, cur, sp) == [soc_mwhr |-> soc, current_mw |-> cur, setpoint_mw |-> sp]

----------------------------------------------------------------------------
(* sim_core::tick_asset                                                    *)

\* lines 71-76: ramp toward the setpoint, then clamp into [min_mw, max_mw]
ramp_step_unlimited(asset, state, dt_secs) ==
    RClamp(state.setpoint_mw, asset.min_mw, asset.max_mw)

ramp_step(asset, state, dt_secs) ==
    LET ramp_per_sec == RDiv(asset.ramp_rate_mw_per_min, Z(60))
        target == state.setpoint_mw
        delta == RSub(target, state.current_mw)
        max_delta == RMul(ramp_per_sec, dt_secs)
        applied_delta == RClamp(delta, RNeg(max_delta), max_delta)
    IN  RClamp(RAdd(state.current_mw, applied_delta), asset.min_mw, asset.max_mw)

\* lines 80-86: energy moved in dt, adjusted by efficiency
adjusted_energy(asset, current_mw, dt_secs) ==
    LET energy_delta_mwh == RDiv(RMul(current_mw, dt_secs), Z(3600))
        eff == asset.efficiency
    IN  IF RGe(energy_delta_mwh, R0)
        THEN RDiv(energy_delta_mwh, eff)
        ELSE RMul(energy_delta_mwh, eff)

\* lines 87-88: integrate SOC and clamp into the SOC band
soc_step_unclamped(asset, soc_mwhr, current_mw, dt_secs) ==
    RSub(soc_mwhr, adjusted_energy(asset, current_mw, dt_secs))

soc_step(asset, soc_mwhr, current_mw, dt_secs) ==
    LET b == soc_bounds(asset)
    IN  RClamp(RSub(soc_mwhr, adjusted_energy(asset, current_mw, dt_secs)), b[1], b[2])

\* lines 92-99: at a SOC boundary and still moving the wrong way; the
\* first without the `else if` for the upper boundary
at_boundary_min_only(asset, soc_mwhr, current_mw) ==
    LET b == soc_bounds(asset)
    IN  RLe(soc_mwhr, RAdd(b[1], eps)) /\ RGt(current_mw, R0)

at_boundary(asset, soc_mwhr, current_mw) ==
    LET b == soc_bounds(asset)
    IN  \/ RLe(soc_mwhr, RAdd(b[1], eps)) /\ RGt(current_mw, R0)
        \/ RGe(soc_mwhr, RSub(b[2], eps)) /\ RLt(current_mw, R0)

status_of(current_mw) ==
    IF RGt(current_mw, Q(1, 10)) THEN "discharging"
    ELSE IF RLt(current_mw, Q(-1, 10)) THEN "charging"
    ELSE "idle"

\* The state tick_asset leaves in *state
tick_state(asset, state, dt_secs) ==
    LET cur == ramp_step(asset, state, dt_secs)
        soc == soc_step(asset, state.soc_mwhr, cur, dt_secs)
    IN  IF at_boundary(asset, soc, cur)
        THEN MkState(soc, R0, R0)
        ELSE MkState(soc, cur, state.setpoint_mw)

\* The Telemetry snapshot tick_asset returns (the fields the headend uses)
tick_asset(asset, state, dt_secs) ==
    LET st == tick_state(asset, state, dt_secs)
    IN  [asset_id |-> asset.id, site_id |-> asset.site_id,
         soc_mwhr |-> st.soc_mwhr, current_mw |-> st.current_mw,
         setpoint_mw |-> st.setpoint_mw, max_mw |-> asset.max_mw,
         min_mw |-> asset.min_mw, status |-> status_of(st.current_mw)]

----------------------------------------------------------------------------
(* der_headend::compute_site_allocations and edge_agent::compute_allocations *)

\* headroom of value val in the direction of the residual
headroom_of(asset, val, direction_positive) ==
    IF direction_positive THEN RSub(asset.max_mw, val) ELSE RSub(asset.min_mw, val)

in_direction(h, direction_positive) ==
    IF direction_positive THEN RGt(h, R0) ELSE RLt(h, R0)

total_headroom_of(headrooms, direction_positive) ==
    RSum([i \in 1..Len(headrooms) |->
            IF in_direction(headrooms[i], direction_positive)
            THEN RAbs(headrooms[i]) ELSE R0])

\* http.rs 853-863: one pass distributing the residual over the headroom
repair_pass_no_reclamp(assets, clamped, residual, headrooms, total_headroom, direction_positive) ==
    [i \in 1..Len(clamped) |->
        IF ~in_direction(headrooms[i], direction_positive)
        THEN clamped[i]
        ELSE RAdd(clamped[i], RMul(residual, RDiv(RAbs(headrooms[i]), total_headroom)))]

repair_pass(assets, clamped, residual, headrooms, total_headroom, direction_positive) ==
    [i \in 1..Len(clamped) |->
        IF ~in_direction(headrooms[i], direction_positive)
        THEN clamped[i]
        ELSE LET share == RDiv(RAbs(headrooms[i]), total_headroom)
                 delta == RMul(residual, share)
                 candidate == RAdd(clamped[i], delta)
             IN  RClamp(candidate, assets[i].min_mw, assets[i].max_mw)]

repair_loop_skipped(assets, clamped, mw_total, attempts) == clamped

\* http.rs 821-865: `while residual.abs() > tolerance && attempts < 3`
RECURSIVE repair_loop(_, _, _, _)
repair_loop(assets, clamped, mw_total, attempts) ==
    LET residual == RSub(mw_total, RSum(clamped))
        direction_positive == RGt(residual, R0)
        headrooms == [i \in 1..Len(clamped) |->
                        headroom_of(assets[i], clamped[i], direction_positive)]
        total_headroom == total_headroom_of(headrooms, direction_positive)
    IN  IF ~(GtTol(residual) /\ attempts < 3) THEN clamped
        ELSE IF LeF64Epsilon(total_headroom) THEN clamped
        ELSE repair_loop(assets,
                         repair_pass(assets, clamped, residual, headrooms,
                                     total_headroom, direction_positive),
                         mw_total, attempts + 1)

cap_sum_of(assets) == RSum([i \in 1..Len(assets) |-> assets[i].capacity_mwhr])

raw_split(assets, mw_total) ==
    [i \in 1..Len(assets) |->
        RDiv(RMul(mw_total, assets[i].capacity_mwhr), cap_sum_of(assets))]

initial_clamp(assets, raw) ==
    [i \in 1..Len(assets) |-> RClamp(raw[i], assets[i].min_mw, assets[i].max_mw)]

AllocationView_never_clamped(id, raw, mw) ==
    [asset_id |-> id, mw_raw |-> raw, mw |-> mw, clamped |-> FALSE]

AllocationView(id, raw, mw) ==
    [asset_id |-> id, mw_raw |-> raw, mw |-> mw, clamped |-> GtTol(RSub(raw, mw))]

\* http.rs 798-806: the zero-total-capacity branch
zero_capacity_allocations(assets, mw_total) ==
    [i \in 1..Len(assets) |->
        [asset_id |-> assets[i].id, mw_raw |-> R0, mw |-> R0, clamped |-> FALSE]]

\* http.rs 792-912
compute_site_allocations(assets, mw_total) ==
    IF assets = <<>> THEN <<>>
    ELSE IF LeF64Epsilon(cap_sum_of(assets))
    THEN zero_capacity_allocations(assets, mw_total)
    ELSE LET raw == raw_split(assets, mw_total)
             clamped == repair_loop(assets, initial_clamp(assets, raw), mw_total, 0)
         IN  [i \in 1..Len(assets) |-> AllocationView(assets[i].id, raw[i], clamped[i])]

\* edge_agent main.rs 607-702.  Its pass has no `continue`: an asset whose
\* headroom is not in the residual's direction takes part with its share.
agent_repair_pass(assets, clamped, residual, headrooms, total_headroom) ==
    [i \in 1..Len(clamped) |->
        LET share == RDiv(RAbs(headrooms[i]), total_headroom)
            delta == RMul(residual, share)
            candidate == RAdd(clamped[i], delta)
        IN  RClamp(candidate, assets[i].min_mw, assets[i].max_mw)]

RECURSIVE agent_repair_loop(_, _, _, _)
agent_repair_loop(assets, clamped, mw_total, attempts) ==
    LET residual == RSub(mw_total, RSum(clamped))
        direction_positive == RGt(residual, R0)
        headrooms == [i \in 1..Len(clamped) |->
                        headroom_of(assets[i], clamped[i], direction_positive)]
        total_headroom == total_headroom_of(headrooms, direction_positive)
    IN  IF ~(GtTol(residual) /\ attempts < 3) THEN clamped
        ELSE IF LeF64Epsilon(total_headroom) THEN clamped
        ELSE agent_repair_loop(assets,
                               agent_repair_pass(assets, clamped, residual,
                                                 headrooms, total_headroom),
                               mw_total, attempts + 1)

compute_allocations(targets, mw_total) ==
    IF targets = <<>> THEN <<>>
    ELSE IF LeF64Epsilon(cap_sum_of(targets))
    THEN LET per == RDiv(mw_total, Z(Len(targets)))
         IN  [i \in 1..Len(targets) |-> RClamp(per, targets[i].min_mw, targets[i].max_mw)]
    ELSE agent_repair_loop(targets, initial_clamp(targets, raw_split(targets, mw_total)),
                           mw_total, 0)

sort_by_id_skipped(s) == s

\* Vec::sort_by_key(|a| a.id) on a vector of distinct ids
RECURSIVE sort_by_id(_)
sort_by_id(s) ==
    IF s = <<>> THEN <<>>
    ELSE LET m == CHOOSE i \in 1..Len(s) : \A j \in 1..Len(s) : s[i].id <= s[j].id
         IN  <<s[m]>> \o sort_by_id([k \in 1..(Len(s) - 1) |-> IF k < m THEN s[k] ELSE s[k + 1]])

\* All enumeration orders of a set (HashMap iteration order is unspecified)
Orders(S) == {f \in [1..Cardinality(S) -> S] : \A i, j \in 1..Cardinality(S) : f[i] = f[j] => i = j}

----------------------------------------------------------------------------
(* State.                                                                  *)

VARIABLES
    \* physics tick of one asset (sim_core)
    tkAsset,     \* the asset being ticked
    tkState,     \* its BessState
    tkPrev,      \* the BessState before the last tick
    tkDt,        \* dt_secs of the last tick
    tkTicks,     \* number of ticks applied
    \* site allocation (create_dispatch's fan-out and the agent's split)
    alOnline,    \* ids of the site's assets in the stream registry
    alTotal,     \* mw_total of the request
    alRuns,      \* per site dispatch: [order, allocations]
    alAgent,     \* the agent-side split of the same total, <<>> before it ran
    \* headend (der_headend AppState and its tasks)
    state,              \* Simulator.state: asset id -> BessState
    dispatches,         \* Simulator.dispatches: asset id -> last Dispatch
    latest,             \* AppState.latest: asset id -> soc_mwhr of the latest telemetry
    agent_streams,      \* AppState.agent_streams: asset id -> AgentStream
    pending_setpoints,  \* AppState.pending_setpoints: asset id -> Dispatch
    uuids,              \* dispatch ids drawn so far (Uuid::new_v4)
    conns,              \* connections accepted so far (calls of stream())
    chan,               \* per connection, its mpsc channel: [sent, nread, rx_open]
    inbound,            \* per connection: frames sent by the agent, not yet received
    task,               \* per connection: the receive task's position and locals
    req,                \* per HTTP request slot: the dispatch handler's position and locals
    requests,           \* dispatch requests submitted so far
    registers,          \* Register frames sent so far
    reg_mark,           \* asset id -> length of its stream's frame log when it registered
    \* SOC event detector
    soc_state,          \* AppState.soc_state: asset id -> zone last recorded
    events,             \* BessEvents persisted by the detector, oldest first
    samples,            \* telemetry samples ingested so far
    detected,           \* asset id -> soc_mwhr of the last sample its detector saw
    \* journal (AppState.db) and the Bootstrap RPC
    db,                 \* whether the headend runs with a journal (state.db is Some)
    jr_telemetry,       \* journal: asset id -> its most recent telemetry row
    jr_dispatches,      \* journal: asset id -> its most recent dispatch row
    jr_attempts,        \* ids of the dispatches persist_dispatch was called for
    jr_acked,           \* ids of the dispatch rows an ack was written to
    jr_sessions,        \* journal: asset id -> number of its sessions without a disconnect time
    boot,               \* the Bootstrap handler's position, locals and last result
    boots,              \* Bootstrap calls made so far
    \* create_dispatch and the receive tasks' cleanup
    site,               \* per HTTP request slot: the site fan-out's locals and result
    http,               \* per HTTP request slot: the status of its last response
    cleanups,           \* per connection: completed runs of the disconnect cleanup
    \* lock discipline
    lk,                 \* per task: the code path it runs and its position in it
    ag                  \* the edge agent: its assets' setpoints, timers and acks

tickVars == <<tkAsset, tkState, tkPrev, tkDt, tkTicks>>
allocVars == <<alOnline, alTotal, alRuns, alAgent>>
simVars == <<state, dispatches, uuids>>
connVars == <<conns, chan, inbound, task, registers>>
headVars == <<simVars, latest, agent_streams, pending_setpoints, connVars, req,
              requests, reg_mark>>
socVars == <<soc_state, events, samples, detected>>
journalVars == <<db, jr_telemetry, jr_dispatches, jr_attempts, jr_acked, jr_sessions>>
bootVars == <<boot, boots>>
siteVars == <<site, http>>
sideVars == <<socVars, journalVars, bootVars, siteVars, cleanups, lk, ag>>
sideNoSessions == <<socVars, db, jr_telemetry, jr_dispatches, jr_attempts, jr_acked, bootVars,
                    siteVars, cleanups, lk, ag>>
vars == <<tickVars, allocVars, headVars, sideVars>>

----------------------------------------------------------------------------
(* Bounds and input sets.                                                  *)

MaxTicks == 2
MaxOnline == 3

\* The site's catalogue: A and B of the reference scenarios, a
\* zero-capacity asset, a discharge-only asset, a charge-only
\* zero-capacity asset and a twin of A.
SitePool ==
    [i \in 1..6 |->
        CASE i = 1 -> MkAsset(1, 1, Z(100), Z(-40), Z(40), R0, Z(100), Z(1), Z(30))
          [] i = 2 -> MkAsset(2, 1, Z(300), Z(-20), Z(20), R0, Z(100), Z(1), Z(30))
          [] i = 3 -> MkAsset(3, 1, R0, Z(-5), Z(10), R0, Z(100), Z(1), Z(30))
          [] i = 4 -> MkAsset(4, 1, Z(200), R0, Z(30), R0, Z(100), Z(1), Z(30))
          [] i = 5 -> MkAsset(5, 1, R0, Z(-10), R0, R0, Z(100), Z(1), Z(30))
          [] i = 6 -> MkAsset(6, 1, Z(100), Z(-40), Z(40), R0, Z(100), Z(1), Z(30))]

\* Assets used for the tick: a symmetric one, one with a narrowed SOC band
\* and lossy conversion, and a degenerate zero-capacity one.
TickAssets ==
    { MkAsset(1, 1, Z(20), Z(-10), Z(10), R0, Z(100), Z(1), Z(30)),
      MkAsset(2, 1, Z(10), Z(-4), Z(5), Z(10), Z(90), Q(4, 5), Z(60)),
      MkAsset(3, 1, R0, Z(-5), Z(5), R0, Z(100), Z(1), Z(30)) }

DtSet == {R0, Z(1), Z(4), Z(3600)}

SocOffsets == {R0, Q(1, 2000000), eps, Q(2, 1000000), Q(1, 2000)}

\* Journal rows a restart may hydrate from (any telemetry ever stored)
JournalSoc(asset) ==
    LET b == soc_bounds(asset)
    IN  {RAdd(b[1], o) : o \in SocOffsets} \cup {RSub(b[2], o) : o \in SocOffsets}
        \cup {initial_soc_mwhr(asset), RSub(b[1], Z(1)), RAdd(b[2], Z(1))}

JournalMw(asset) == {asset.min_mw, R0, asset.max_mw, Z(10), Z(-7)}

hydrate_state_as_stored(asset, soc_mwhr, current_mw, setpoint_mw) ==
    MkState(soc_mwhr, current_mw, setpoint_mw)

\* main.rs 295-303: hydrate_sim_state reclamps a journal row into bounds
hydrate_state(asset, soc_mwhr, current_mw, setpoint_mw) ==
    MkState(clamp_soc(asset, soc_mwhr),
            RClamp(current_mw, asset.min_mw, asset.max_mw),
            RClamp(setpoint_mw, asset.min_mw, asset.max_mw))

\* main.rs 91-98: construction state
initial_state(asset) == MkState(initial_soc_mwhr(asset), R0, R0)

----------------------------------------------------------------------------
(* Headend: simulator state, stream registry, pending setpoints.           *)

MaxConns == 2
MaxDispatches == 2
MaxRegisters == 2
\* mpsc::channel::<HeadendToAgent>(32)
MailboxCap == 32

\* HashMap operations on maps modelled as functions with a finite domain
MapPut(m, k, v) == [x \in (DOMAIN m) \cup {k} |-> IF x = k THEN v ELSE m[x]]
MapDel(m, k) == [x \in (DOMAIN m) \ {k} |-> m[x]]
Has(m, k) == k \in DOMAIN m
EmptyMap == [x \in {} |-> 0]

\* The catalogue loaded at startup: assets A and B of one site
CatalogueIds == {1, 2}
Catalogue == [a \in CatalogueIds |-> SitePool[a]]
\* Requests <<asset id, mw>> an operator may submit: within limits, beyond
\* max_mw, and for an id (9) that is not in the catalogue
Requests == {<<1, Z(5)>>, <<1, Z(-5)>>, <<1, Z(50)>>, <<2, Z(5)>>, <<2, Z(-5)>>,
             <<9, Z(5)>>}
\* Requests within both assets' limits: the n-th request discharges for odd
\* n and charges for even n
MwLive(n) == IF n % 2 = 1 THEN Z(5) ELSE Z(-5)
\* Asset lists an agent may register
RegisterLists == {<<1>>, <<1, 2>>}
Conns == 1..MaxConns
Slots == {1, 2}
None == [none |-> TRUE]
NoSessions == [a \in CatalogueIds |-> 0]

\* main.rs 150-159: the Dispatch set_dispatch records; the first drops
\* req.clamped
Dispatch_not_clamped(id, asset_id, mw, clamped) ==
    [id |-> id, asset_id |-> asset_id, mw |-> mw, status |-> "accepted",
     clamped |-> FALSE]

Dispatch(id, asset_id, mw, clamped) ==
    [id |-> id, asset_id |-> asset_id, mw |-> mw, status |-> "accepted",
     clamped |-> clamped]

\* headend_to_agent::Msg::Setpoint built from a dispatch
Setpoint(d) == [asset_id |-> d.asset_id, mw |-> d.mw, dispatch_id |-> d.id]

\* grpc.rs 450-487: a TelemetrySnapshotRow, reduced to the fields the
\* simulator hydrates from
TelemetryRow(soc_mwhr, current_mw, setpoint_mw) ==
    [soc_mwhr |-> soc_mwhr, current_mw |-> current_mw, setpoint_mw |-> setpoint_mw]

\* grpc.rs 541-556: a DispatchSnapshotRow
DispatchRow(id, mw) == [id |-> id, mw |-> mw]

\* main.rs 86-119: Simulator::from_assets.  The synthetic dispatch of asset
\* a carries the id -a (a fresh uuid no request ever gets).
from_assets_state == [a \in CatalogueIds |-> initial_state(Catalogue[a])]
from_assets_dispatches == [a \in CatalogueIds |-> Dispatch(-a, a, R0, FALSE)]

\* The SOC the gate tests: `soc_override ?? state.soc_mwhr`
gate_soc(st, soc_override) == IF soc_override = None THEN st.soc_mwhr ELSE soc_override

\* main.rs 125-163: Simulator::set_dispatch(req, soc_override), as
\* [ok, reason, dispatch].  `id` is the uuid the accepted dispatch gets.
set_dispatch_no_soc_gate(rq, soc_override, id) ==
    IF ~Has(Catalogue, rq.asset_id)
    THEN [ok |-> FALSE, reason |-> "asset not found for dispatch"]
    ELSE LET asset == Catalogue[rq.asset_id]
         IN  IF RGt(rq.mw, asset.max_mw) \/ RLt(rq.mw, asset.min_mw)
             THEN [ok |-> FALSE, reason |-> "mw out of bounds for asset"]
             ELSE [ok |-> TRUE, reason |-> "",
                   dispatch |-> Dispatch(id, rq.asset_id, rq.mw, rq.clamped)]

set_dispatch_no_limit_gate(rq, soc_override, id) ==
    IF ~Has(Catalogue, rq.asset_id)
    THEN [ok |-> FALSE, reason |-> "asset not found for dispatch"]
    ELSE LET asset == Catalogue[rq.asset_id]
             b == soc_bounds(asset)
             soc == gate_soc(state[rq.asset_id], soc_override)
         IN  IF Has(state, rq.asset_id) /\ RGt(rq.mw, R0) /\ RLe(soc, RAdd(b[1], eps))
             THEN [ok |-> FALSE, reason |-> "dispatch rejected: at min SOC"]
             ELSE IF Has(state, rq.asset_id) /\ RLt(rq.mw, R0) /\ RGe(soc, RSub(b[2], eps))
             THEN [ok |-> FALSE, reason |-> "dispatch rejected: at max SOC"]
             ELSE [ok |-> TRUE, reason |-> "",
                   dispatch |-> Dispatch(id, rq.asset_id, rq.mw, rq.clamped)]

set_dispatch(rq, soc_override, id) ==
    IF ~Has(Catalogue, rq.asset_id)
    THEN [ok |-> FALSE, reason |-> "asset not found for dispatch"]
    ELSE LET asset == Catalogue[rq.asset_id]
             b == soc_bounds(asset)
             soc == gate_soc(state[rq.asset_id], soc_override)
         IN  IF Has(state, rq.asset_id) /\ RGt(rq.mw, R0) /\ RLe(soc, RAdd(b[1], eps))
             THEN [ok |-> FALSE, reason |-> "dispatch rejected: at min SOC"]
             ELSE IF Has(state, rq.asset_id) /\ RLt(rq.mw, R0) /\ RGe(soc, RSub(b[2], eps))
             THEN [ok |-> FALSE, reason |-> "dispatch rejected: at max SOC"]
             ELSE IF RGt(rq.mw, asset.max_mw) \/ RLt(rq.mw, asset.min_mw)
             THEN [ok |-> FALSE, reason |-> "mw out of bounds for asset"]
             ELSE [ok |-> TRUE, reason |-> "",
                   dispatch |-> Dispatch(id, rq.asset_id, rq.mw, rq.clamped)]

Elems(ids) == {ids[i] : i \in DOMAIN ids}

\* the mailbox: frames enqueued and not yet read by the agent
Unread(ch) == SubSeq(ch.sent, ch.nread + 1, Len(ch.sent))

IdleReq == [pc |-> "idle", asset_id |-> 0, mw |-> R0, clamped |-> FALSE,
            soc_override |-> None, dispatch |-> None]
UnusedTask == [pc |-> "unused", todo |-> <<>>, cur |-> 0, asset_ids |-> <<>>]
UnusedChan == [sent |-> <<>>, nread |-> 0, rx_open |-> FALSE]

\* main.rs 349-378: AppState after construction, without a journal to
\* hydrate from
InitApp ==
    /\ dispatches = from_assets_dispatches
    /\ uuids = 0
    /\ latest = EmptyMap
    /\ agent_streams = EmptyMap
    /\ pending_setpoints = EmptyMap
    /\ conns = 0
    /\ chan = [c \in Conns |-> UnusedChan]
    /\ inbound = [c \in Conns |-> <<>>]
    /\ task = [c \in Conns |-> UnusedTask]
    /\ req = [h \in Slots |-> IdleReq]
    /\ requests = 0
    /\ registers = 0
    /\ reg_mark = EmptyMap

InitHead == state = from_assets_state /\ InitApp

HeadIdle == InitHead

\* main.rs 377: soc_state starts empty; nothing ingested yet
SocIdle ==
    /\ soc_state = EmptyMap
    /\ events = <<>>
    /\ samples = 0
    /\ detected = EmptyMap

\* a headend started without a journal (state.db is None)
NoJournal ==
    /\ db = FALSE
    /\ jr_telemetry = EmptyMap
    /\ jr_dispatches = EmptyMap
    /\ jr_attempts = {}
    /\ jr_acked = {}
    /\ jr_sessions = NoSessions

\* Bootstrap handler locals ids, telemetry_map; resp is the last result
IdleBoot == [pc |-> "idle", ids |-> <<>>, telemetry_map |-> EmptyMap, resp |-> <<>>]

\* no Bootstrap call made yet
BootIdle ==
    /\ boot = IdleBoot
    /\ boots = 0

\* http.rs 640: fan-out locals of a request slot; allocations and results
\* are the body of its SiteDispatchResult
IdleSite == [pc |-> "idle", allocations |-> <<>>, idx |-> 0, results |-> <<>>]

\* the status line of a response, with the asset_id and site_id fields of
\* the request it answers
Response(status, reason, asset_id, site_id) ==
    [status |-> status, reason |-> reason, asset_id |-> asset_id, site_id |-> site_id]
NoResponse == Response("none", "", 0, 0)

\* tasks of the lock discipline: the two dispatch handlers and a
\* receive task; none has started a code path
LockTasks == {"handler1", "handler2", "receive1"}
LockIdle == lk = [t \in LockTasks |-> [path |-> "none", pc |-> 1]]

\* the assets the edge agent hosts: 1 and 2 of site 1, and 5 at another site
LocalIds == {1, 2, 5}
\* an agent that has received nothing: every setpoint 0 MW, no timer
IdleAgent ==
    [setpoint |-> [a \in LocalIds |-> R0],  \* sim.setpoint_mw of each local asset
     owner |-> [a \in LocalIds |-> 0],      \* number of the Setpoint applied to it last
     timer |-> [a \in LocalIds |-> 0],      \* setpoint_timer: 0 is None, else a task of tasks
     tasks |-> <<>>,                        \* the expiry tasks spawned so far
     acks |-> <<>>,                         \* the DispatchAcks handed to the channel
     applied |-> 0,                         \* Setpoints taken off the stream
     last |-> None,                         \* the Setpoint taken last
     cur |-> None,                          \* apply_setpoint in progress
     link |-> "down",                       \* position of run_grpc_loop
     attempts |-> 0,                        \* connect attempts made
     waited |-> FALSE,                      \* the backoff sleep ran since the last attempt
     sent |-> <<>>]                         \* frames sent on the current stream
AgentIdle == ag = IdleAgent

\* no dispatch request served yet, no cleanup run yet
SiteIdle ==
    /\ site = [h \in Slots |-> IdleSite]
    /\ http = [h \in Slots |-> NoResponse]
    /\ cleanups = [c \in Conns |-> 0]

SideIdle == SocIdle /\ NoJournal /\ BootIdle /\ SiteIdle /\ LockIdle /\ AgentIdle

----------------------------------------------------------------------------
(* SpecTick: tick_asset applied to an asset's state.                       *)

TickIdle ==
    /\ tkAsset = MkAsset(1, 1, R0, R0, R0, R0, R0, Z(1), R0)
    /\ tkState = MkState(R0, R0, R0)
    /\ tkPrev = MkState(R0, R0, R0)
    /\ tkDt = R0
    /\ tkTicks = 0

AllocIdle ==
    /\ alOnline = {}
    /\ alTotal = R0
    /\ alRuns = <<>>
    /\ alAgent = <<>>

InitTick ==
    /\ tkAsset \in TickAssets
    /\ tkState \in {initial_state(tkAsset)} \cup
           {hydrate_state(tkAsset, s, c, p) :
                s \in JournalSoc(tkAsset), c \in JournalMw(tkAsset), p \in JournalMw(tkAsset)}
    /\ tkPrev = tkState
    /\ tkDt = R0
    /\ tkTicks = 0
    /\ AllocIdle
    /\ HeadIdle
    /\ SideIdle

\* tick_asset(asset, &mut state, dt_secs)
Tick(dt) ==
    /\ tkTicks < MaxTicks
    /\ tkPrev' = tkState
    /\ tkState' = tick_state(tkAsset, tkState, dt)
    /\ tkDt' = dt
    /\ tkTicks' = tkTicks + 1
    /\ UNCHANGED <<tkAsset, allocVars, headVars, sideVars>>

NextTick == \E dt \in DtSet : Tick(dt)

SpecTick == InitTick /\ [][NextTick]_vars

----------------------------------------------------------------------------
(* SpecAlloc: site dispatches over the same online assets and mw_total.    *)

TotalSet == {Z(-70), Z(-35), R0, Z(10), Z(35), Z(95)}

\* 80.0000016 MW, asked of the twins A and A' whose joint limit is 80 MW
NearLimitTotal == Q(50000001, 625000)
Twins == {1, 6}

\* http.rs 607-615: metadata of the enumerated ids, sorted by id
gather_assets_meta(order) == sort_by_id([i \in 1..Len(order) |-> SitePool[order[i]]])

InitAlloc ==
    /\ alOnline \in {S \in SUBSET (DOMAIN SitePool) : S # {} /\ Cardinality(S) <= MaxOnline}
    /\ alTotal \in TotalSet \cup (IF alOnline = Twins THEN {NearLimitTotal} ELSE {})
    /\ alRuns = <<>>
    /\ alAgent = <<>>
    /\ TickIdle
    /\ HeadIdle
    /\ SideIdle

\* create_dispatch, site path (http.rs 589-631): enumerate the registry in
\* some order, sort, allocate.  Two dispatches are compared.
SiteAllocate(order) ==
    /\ Len(alRuns) < 2
    /\ alRuns' = Append(alRuns,
           [order |-> order,
            allocations |-> compute_site_allocations(gather_assets_meta(order), alTotal)])
    /\ UNCHANGED <<alOnline, alTotal, alAgent, tickVars, headVars, sideVars>>

\* edge_agent main.rs 592-599: the site's local assets, sorted by id
RECURSIVE resolve_site_targets(_)
resolve_site_targets(ids) ==
    IF ids = {} THEN <<>>
    ELSE LET m == CHOOSE i \in ids : \A j \in ids : i <= j
         IN  <<SitePool[m]>> \o resolve_site_targets(ids \ {m})

\* apply_setpoint on a gateway agent holding the same assets
\* (edge_agent main.rs 250-261)
AgentAllocate ==
    /\ alAgent = <<>>
    /\ alAgent' = compute_allocations(resolve_site_targets(alOnline), alTotal)
    /\ UNCHANGED <<alOnline, alTotal, alRuns, tickVars, headVars, sideVars>>

NextAlloc ==
    \/ \E order \in Orders(alOnline) : SiteAllocate(order)
    \/ AgentAllocate

SpecAlloc == InitAlloc /\ [][NextAlloc]_vars

----------------------------------------------------------------------------
(* Spec: the headend's dispatch handlers and per-connection receive tasks. *)

\* grpc.rs 79-94, 312-314: stream() creates the connection's channel and
\* spawns its receive task
Accept ==
    /\ conns < MaxConns
    /\ conns' = conns + 1
    /\ chan' = [chan EXCEPT ![conns + 1] = [sent |-> <<>>, nread |-> 0, rx_open |-> TRUE]]
    /\ task' = [task EXCEPT ![conns + 1].pc = "recv"]
    /\ UNCHANGED <<tickVars, allocVars, sideVars, simVars, latest, agent_streams,
                   pending_setpoints, inbound, registers, req, requests, reg_mark>>

\* The agent writes a Register frame naming the assets it hosts
AgentSendRegister(c, ids) ==
    /\ chan[c].rx_open
    /\ registers < MaxRegisters
    /\ registers' = registers + 1
    /\ inbound' = [inbound EXCEPT ![c] = Append(@, [assets |-> ids])]
    /\ UNCHANGED <<tickVars, allocVars, sideVars, simVars, latest, agent_streams,
                   pending_setpoints, conns, chan, task, req, requests, reg_mark>>

\* The transport takes the next frame out of the mailbox for the agent
AgentRecv(c) ==
    /\ chan[c].rx_open
    /\ chan[c].nread < Len(chan[c].sent)
    /\ chan' = [chan EXCEPT ![c].nread = @ + 1]
    /\ UNCHANGED <<tickVars, allocVars, sideVars, simVars, latest, agent_streams,
                   pending_setpoints, conns, inbound, task, registers, req,
                   requests, reg_mark>>

\* The connection goes away: the response body (the channel's receiver) is
\* dropped with whatever the mailbox still holds, and the inbound stream
\* ends after the frames already buffered
AgentClose(c) ==
    /\ chan[c].rx_open
    /\ chan' = [chan EXCEPT ![c].rx_open = FALSE]
    /\ UNCHANGED <<tickVars, allocVars, sideVars, simVars, latest, agent_streams,
                   pending_setpoints, conns, inbound, task, registers, req,
                   requests, reg_mark>>

\* db.rs 380-403: `INSERT INTO agent_sessions (.., connected_at)`
record_agent_connect(a) == [jr_sessions EXCEPT ![a] = @ + 1]

\* db.rs 405-418: `UPDATE agent_sessions SET disconnected_at = NOW()
\* WHERE asset_id = $1 AND disconnected_at IS NULL`
record_agent_disconnect(a) == [jr_sessions EXCEPT ![a] = 0]

\* grpc.rs 132-167: agent_streams.insert(uuid, AgentStream {tx, ..});
\* asset_ids.push(..); record_agent_connect when there is a journal
insert_stream(c, a, ids) ==
    /\ agent_streams' = MapPut(agent_streams, a, [tx |-> c, site_id |-> Catalogue[a].site_id])
    /\ jr_sessions' = IF db THEN record_agent_connect(a) ELSE jr_sessions
    /\ reg_mark' = MapPut(reg_mark, a, Len(chan[c].sent))
    /\ task' = [task EXCEPT ![c] = [pc |-> "reg_drain", todo |-> Tail(ids), cur |-> a,
                                    asset_ids |-> Append(IF task[c].pc = "recv" THEN <<>>
                                                         ELSE task[c].asset_ids, a)]]

\* grpc.rs 96-143: the task receives a Register frame, clears asset_ids and
\* inserts the stream of the frame's first asset
TaskRegister(c) ==
    /\ task[c].pc = "recv"
    /\ inbound[c] # <<>>
    /\ "assets" \in DOMAIN Head(inbound[c])
    /\ inbound' = [inbound EXCEPT ![c] = Tail(@)]
    /\ insert_stream(c, Head(inbound[c]).assets[1], Head(inbound[c]).assets)
    /\ UNCHANGED <<tickVars, allocVars, sideNoSessions, simVars, latest, pending_setpoints, conns,
                   chan, registers, req, requests>>

\* grpc.rs 117-143: the next descriptor of the same Register frame
TaskRegisterNext(c) ==
    /\ task[c].pc = "reg_insert"
    /\ insert_stream(c, Head(task[c].todo), task[c].todo)
    /\ UNCHANGED <<tickVars, allocVars, sideNoSessions, simVars, latest, pending_setpoints, conns,
                   chan, inbound, registers, req, requests>>

drain_pending_kept(c, a) ==
    IF Has(pending_setpoints, a)
    THEN /\ chan[c].rx_open => Len(Unread(chan[c])) < MailboxCap
         /\ pending_setpoints' = pending_setpoints
         /\ chan' = IF chan[c].rx_open
                    THEN [chan EXCEPT ![c].sent = Append(@, Setpoint(pending_setpoints[a]))]
                    ELSE chan
    ELSE UNCHANGED <<pending_setpoints, chan>>

\* grpc.rs 169-184: `if let Some(pending) = pending_setpoints.remove(&uuid)
\* { let _ = tx.send(Setpoint ..).await; }`.  send waits while the mailbox
\* is full and fails, unnoticed, when the receiver is gone.
drain_pending(c, a) ==
    IF Has(pending_setpoints, a)
    THEN /\ chan[c].rx_open => Len(Unread(chan[c])) < MailboxCap
         /\ pending_setpoints' = MapDel(pending_setpoints, a)
         /\ chan' = IF chan[c].rx_open
                    THEN [chan EXCEPT ![c].sent = Append(@, Setpoint(pending_setpoints[a]))]
                    ELSE chan
    ELSE UNCHANGED <<pending_setpoints, chan>>

TaskDrainPending(c) ==
    /\ task[c].pc = "reg_drain"
    /\ drain_pending(c, task[c].cur)
    /\ task' = [task EXCEPT ![c].pc = IF task[c].todo = <<>> THEN "recv" ELSE "reg_insert"]
    /\ UNCHANGED <<tickVars, allocVars, sideVars, simVars, latest, agent_streams, conns,
                   inbound, registers, req, requests, reg_mark>>

\* grpc.rs 96, 277-288: the inbound stream ends; the loop is left
TaskStreamEnd(c) ==
    /\ task[c].pc = "recv"
    /\ inbound[c] = <<>>
    /\ ~chan[c].rx_open
    /\ task' = [task EXCEPT ![c].pc = IF task[c].asset_ids = <<>> THEN "ended" ELSE "cleanup",
                            ![c].todo = task[c].asset_ids]
    /\ UNCHANGED <<tickVars, allocVars, sideVars, simVars, latest, agent_streams,
                   pending_setpoints, conns, chan, inbound, registers, req,
                   requests, reg_mark>>

\* grpc.rs 290-310: `for id in asset_ids { agent_streams.remove(&id) }`
TaskCleanup(c) ==
    /\ task[c].pc = "cleanup"
    /\ agent_streams' = MapDel(agent_streams, Head(task[c].todo))
    /\ task' = [task EXCEPT ![c].pc = IF Tail(task[c].todo) = <<>> THEN "ended" ELSE "cleanup",
                            ![c].todo = Tail(@)]
    /\ cleanups' = IF Tail(task[c].todo) = <<>> THEN [cleanups EXCEPT ![c] = @ + 1]
                    ELSE cleanups
    /\ jr_sessions' = IF db THEN record_agent_disconnect(Head(task[c].todo)) ELSE jr_sessions
    /\ UNCHANGED <<tickVars, allocVars, socVars, db, jr_telemetry, jr_dispatches, jr_attempts,
                   jr_acked, bootVars, siteVars, simVars,
                   latest, pending_setpoints, conns, chan, inbound, registers, req,
                   requests, reg_mark, lk, ag>>

\* grpc.rs 318-333: handle_agent_telemetry stores the asset's latest
\* telemetry
IngestTelemetry(a, soc_mwhr) ==
    /\ IF Has(latest, a) THEN latest[a] # soc_mwhr ELSE TRUE
    /\ latest' = MapPut(latest, a, soc_mwhr)
    /\ UNCHANGED <<tickVars, allocVars, sideVars, simVars, agent_streams, pending_setpoints,
                   connVars, req, requests, reg_mark>>

\* IncomingDispatch.asset_id / site_id: Option<String>.  Absent is None,
\* Blank a string of blanks, NotUuid a string that is no uuid; a positive
\* number is the uuid of that number.
Absent == 0
Blank == -1
NotUuid == -2

\* http.rs 570-571: `.map(|s| s.trim()).filter(|s| !s.is_empty()).is_some()`
field_set(f) == f # Absent /\ f # Blank

\* http.rs 570-578 without the exclusivity test
exactly_one_skipped(asset_id, site_id) == TRUE

\* http.rs 570-578: exactly one of asset_id and site_id is set
exactly_one(asset_id, site_id) == field_set(asset_id) # field_set(site_id)

\* http.rs 589-596: ids of the streams registered for the site; the first
\* without the filter on site_id
online_assets_any_site(site_id) == DOMAIN agent_streams

online_assets(site_id) == {a \in DOMAIN agent_streams : agent_streams[a].site_id = site_id}

\* http.rs 607-615: catalogue metadata of the online assets, sorted by id
assets_meta(online) ==
    LET known == online \cap DOMAIN Catalogue
        order == CHOOSE f \in Orders(known) : TRUE
    IN  sort_by_id([i \in 1..Cardinality(known) |-> Catalogue[order[i]]])

\* http.rs 676-724: handle_single_dispatch up to the simulator's write
\* lock; the SOC override is read from `latest` here
single_dispatch(a, mw, clamped) ==
    [pc |-> "gate", asset_id |-> a, mw |-> mw, clamped |-> clamped,
     soc_override |-> IF Has(latest, a) THEN latest[a] ELSE None,
     dispatch |-> None]

\* a slot whose handler is in the fan-out loop of create_dispatch
SiteReq == [IdleReq EXCEPT !.pc = "site"]

\* http.rs 565-674: create_dispatch up to its first sub-call.  A request
\* takes the lowest idle slot.
CreateDispatch(h, asset_id, site_id, mw) ==
    /\ req[h].pc = "idle"
    /\ \A k \in Slots : k < h => req[k].pc # "idle"
    /\ requests' = requests + 1
    /\ IF ~exactly_one(asset_id, site_id)
       THEN /\ http' = [http EXCEPT ![h] =
                           Response("bad_request", "provide exactly one of asset_id or site_id", asset_id, site_id)]
            /\ site' = [site EXCEPT ![h] = IdleSite]
            /\ req' = req
       ELSE IF field_set(site_id)
       THEN IF site_id = NotUuid
            THEN /\ http' = [http EXCEPT ![h] = Response("bad_request", "invalid site_id", asset_id, site_id)]
                 /\ site' = [site EXCEPT ![h] = IdleSite]
                 /\ req' = req
            ELSE IF online_assets(site_id) = {}
            THEN /\ http' = [http EXCEPT ![h] = Response("bad_request", "no online assets", asset_id, site_id)]
                 /\ site' = [site EXCEPT ![h] = IdleSite]
                 /\ req' = req
            ELSE IF assets_meta(online_assets(site_id)) = <<>>
            THEN /\ http' = [http EXCEPT ![h] = Response("bad_request", "metadata missing", asset_id, site_id)]
                 /\ site' = [site EXCEPT ![h] = IdleSite]
                 /\ req' = req
            ELSE /\ http' = [http EXCEPT ![h] = Response("none", "", asset_id, site_id)]
                 /\ site' = [site EXCEPT ![h] =
                        [pc |-> "fanout",
                         allocations |->
                             compute_site_allocations(assets_meta(online_assets(site_id)), mw),
                         idx |-> 1, results |-> <<>>]]
                 /\ req' = [req EXCEPT ![h] = SiteReq]
       ELSE IF asset_id = NotUuid
       THEN /\ http' = [http EXCEPT ![h] = Response("bad_request", "invalid asset_id", asset_id, site_id)]
            /\ site' = [site EXCEPT ![h] = IdleSite]
            /\ req' = req
       ELSE /\ http' = [http EXCEPT ![h] = Response("none", "", asset_id, site_id)]
            /\ site' = [site EXCEPT ![h] = IdleSite]
            /\ req' = [req EXCEPT ![h] = single_dispatch(asset_id, mw, FALSE)]
    /\ UNCHANGED <<tickVars, allocVars, socVars, journalVars, bootVars, cleanups, lk, ag, simVars,
                   latest, agent_streams, pending_setpoints, connVars, reg_mark>>

\* http.rs 666-667: a request for one asset
SubmitDispatch(h, a, mw) ==
    /\ requests < MaxDispatches
    /\ CreateDispatch(h, a, Absent, mw)

\* http.rs 640-663: the fan-out loop between two sub-calls: the next
\* allocation's handle_single_dispatch starts, or the loop is over and
\* SiteDispatchResult {allocations, dispatches: results} is returned
SiteNext(h) ==
    /\ req[h].pc = "site"
    /\ site[h].pc = "fanout"
    /\ IF site[h].idx > Len(site[h].allocations)
       THEN /\ req' = [req EXCEPT ![h] = IdleReq]
            /\ site' = [site EXCEPT ![h].pc = "done"]
            /\ http' = [http EXCEPT ![h].status = "ok"]
       ELSE /\ req' = [req EXCEPT ![h] =
                          single_dispatch(site[h].allocations[site[h].idx].asset_id,
                                          site[h].allocations[site[h].idx].mw,
                                          site[h].allocations[site[h].idx].clamped)]
            /\ site' = [site EXCEPT ![h].pc = "await"]
            /\ http' = http
    /\ UNCHANGED <<tickVars, allocVars, socVars, journalVars, bootVars, cleanups, lk, ag, simVars,
                   latest, agent_streams, pending_setpoints, connVars, requests, reg_mark>>

\* http.rs 648-657, 667-672: handle_single_dispatch returns to
\* create_dispatch, which pushes an Ok to results and only logs an Err in
\* the fan-out loop, and answers the caller otherwise
return_single(h, ok, reason, dispatch) ==
    IF site[h].pc = "await"
    THEN /\ req' = [req EXCEPT ![h] = SiteReq]
         /\ site' = [site EXCEPT ![h].pc = "fanout",
                                 ![h].idx = @ + 1,
                                 ![h].results = IF ok THEN Append(@, dispatch) ELSE @]
         /\ http' = http
    ELSE /\ req' = [req EXCEPT ![h] = IdleReq]
         /\ site' = site
         /\ http' = [http EXCEPT ![h].status = IF ok THEN "ok" ELSE "bad_request",
                                 ![h].reason = IF ok THEN "" ELSE reason]

\* db.rs 321-343: persist_dispatch inserts the row that is then the
\* asset's most recent one
persist_dispatch(d) == MapPut(jr_dispatches, d.asset_id, DispatchRow(d.id, d.mw))

persist_dispatch_call_skipped(id) == jr_attempts

\* http.rs 742-747: `if let Some(db) = state.db.as_ref() { persist_dispatch(..).await }`
persist_dispatch_call(id) == IF db THEN jr_attempts \cup {id} ELSE jr_attempts

\* http.rs 726-747, 761-787: sim.set_dispatch under the write lock, then
\* persist_dispatch when there is a journal
GateDispatch(h) ==
    /\ req[h].pc = "gate"
    /\ LET r == set_dispatch(req[h], req[h].soc_override, uuids + 1)
       IN  IF r.ok
           THEN /\ state' = [state EXCEPT ![req[h].asset_id].setpoint_mw = req[h].mw]
                /\ dispatches' = MapPut(dispatches, req[h].asset_id, r.dispatch)
                /\ uuids' = uuids + 1
                /\ req' = [req EXCEPT ![h].pc = "push", ![h].dispatch = r.dispatch]
                /\ jr_dispatches' = IF db THEN persist_dispatch(r.dispatch)
                                    ELSE jr_dispatches
                /\ jr_attempts' = persist_dispatch_call(r.dispatch.id)
                /\ UNCHANGED siteVars
           ELSE /\ return_single(h, FALSE, r.reason, None)
                /\ UNCHANGED <<simVars, jr_dispatches, jr_attempts, jr_acked, jr_sessions>>
    /\ UNCHANGED <<tickVars, allocVars, socVars, bootVars, cleanups, lk, ag, db, jr_telemetry,
                   jr_acked, jr_sessions, latest, agent_streams, pending_setpoints, connVars, requests,
                   reg_mark>>

\* http.rs 914-940: push_setpoint_to_agent, with the streams read guard
\* held across send().await
push_setpoint_to_agent(h) ==
    LET d == req[h].dispatch
        live == Has(agent_streams, d.asset_id) /\ chan[agent_streams[d.asset_id].tx].rx_open
    IN  IF live
        THEN /\ Len(Unread(chan[agent_streams[d.asset_id].tx])) < MailboxCap
             /\ chan' = [chan EXCEPT ![agent_streams[d.asset_id].tx].sent = Append(@, Setpoint(d))]
             /\ return_single(h, TRUE, "", d)
        ELSE /\ req' = [req EXCEPT ![h].pc = "park"]
             /\ UNCHANGED <<chan, siteVars>>

PushSetpoint(h) ==
    /\ req[h].pc = "push"
    /\ push_setpoint_to_agent(h)
    /\ UNCHANGED <<tickVars, allocVars, socVars, journalVars, bootVars, cleanups, lk, ag, simVars,
                   latest, agent_streams, pending_setpoints, conns, inbound, task,
                   registers, requests, reg_mark>>

\* http.rs 750-758: pending_setpoints.insert(dispatch.asset_id, dispatch)
park_if_absent(h) ==
    IF Has(pending_setpoints, req[h].dispatch.asset_id) THEN pending_setpoints
    ELSE MapPut(pending_setpoints, req[h].dispatch.asset_id, req[h].dispatch)

park(h) == MapPut(pending_setpoints, req[h].dispatch.asset_id, req[h].dispatch)

ParkSetpoint(h) ==
    /\ req[h].pc = "park"
    /\ pending_setpoints' = park(h)
    /\ return_single(h, TRUE, "", req[h].dispatch)
    /\ UNCHANGED <<tickVars, allocVars, socVars, journalVars, bootVars, cleanups, lk, ag, simVars,
                   latest, agent_streams, connVars, requests, reg_mark>>

Init == InitHead /\ TickIdle /\ AllocIdle /\ SideIdle

Next ==
    \/ Accept
    \/ \E c \in Conns, ids \in RegisterLists : AgentSendRegister(c, ids)
    \/ \E c \in Conns : AgentRecv(c)
    \/ \E c \in Conns : AgentClose(c)
    \/ \E c \in Conns : TaskRegister(c)
    \/ \E c \in Conns : TaskRegisterNext(c)
    \/ \E c \in Conns : TaskDrainPending(c)
    \/ \E c \in Conns : TaskStreamEnd(c)
    \/ \E c \in Conns : TaskCleanup(c)
    \/ \E h \in Slots, a \in CatalogueIds : SubmitDispatch(h, a, MwLive(requests + 1))
    \/ \E h \in Slots : GateDispatch(h)
    \/ \E h \in Slots : PushSetpoint(h)
    \/ \E h \in Slots : ParkSetpoint(h)

Spec == Init /\ [][Next]_vars

----------------------------------------------------------------------------
(* SpecGate: the dispatch gate over hydrated simulator state and telemetry *)
(* overrides, with no agent connected.                                     *)

\* Telemetry SOC values an agent may have reported
TelemetrySoc == {R0, Z(50)}

\* SOC rows the journal may hold at startup
GateSoc(asset) ==
    LET b == soc_bounds(asset)
    IN  {RAdd(b[1], eps), RAdd(b[1], Q(2, 1000000)), RSub(b[2], eps)}

\* main.rs 277-309: hydrate_sim_state overwrites the construction state
\* of the assets the journal has a row for
InitGate ==
    /\ \E soc \in [CatalogueIds -> UNION {GateSoc(Catalogue[a]) : a \in CatalogueIds}] :
          /\ \A a \in CatalogueIds : soc[a] \in GateSoc(Catalogue[a])
          /\ jr_telemetry = [a \in CatalogueIds |-> TelemetryRow(soc[a], R0, R0)]
          /\ state = [a \in CatalogueIds |-> hydrate_state(Catalogue[a], soc[a], R0, R0)]
    /\ db = TRUE
    /\ jr_dispatches = EmptyMap
    /\ jr_attempts = {}
    /\ jr_acked = {}
    /\ jr_sessions = NoSessions
    /\ InitApp
    /\ TickIdle
    /\ AllocIdle
    /\ SocIdle
    /\ BootIdle
    /\ SiteIdle
    /\ LockIdle
    /\ AgentIdle

NextGate ==
    \/ \E a \in CatalogueIds, soc \in TelemetrySoc : IngestTelemetry(a, soc)
    \/ \E h \in Slots, r \in Requests : SubmitDispatch(h, r[1], r[2])
    \/ \E h \in Slots : GateDispatch(h)
    \/ \E h \in Slots : PushSetpoint(h)
    \/ \E h \in Slots : ParkSetpoint(h)

SpecGate == InitGate /\ [][NextGate]_vars

----------------------------------------------------------------------------
(* SpecSoc: telemetry ingest and the SOC event detector.                   *)

MaxSamples == 3

\* Telemetry samples <<asset id, soc_mwhr>> an agent may send: at the lower
\* boundary, inside the band, at the upper boundary, and for an id (9)
\* that is not in the catalogue
SampleSet ==
    UNION {{<<a, soc>> : soc \in GateSoc(Catalogue[a])} : a \in CatalogueIds}
        \cup {<<9, R0>>}

\* grpc.rs 690-698: the zone of a telemetry sample
soc_zone(asset, soc_mwhr) ==
    LET b == soc_bounds(asset)
    IN  IF RLe(soc_mwhr, RAdd(b[1], eps)) THEN "BelowMin"
        ELSE IF RGe(soc_mwhr, RSub(b[2], eps)) THEN "AboveMax"
        ELSE "InRange"

\* grpc.rs 701-710: the event type due for zone next_state when prev was
\* the zone recorded before ("NoZone" when there was none)
soc_event_every_sample(prev, next_state) ==
    CASE next_state = "BelowMin" -> "MIN_SOC_REACHED"
      [] next_state = "AboveMax" -> "MAX_SOC_REACHED"
      [] OTHER -> "none"

soc_event(prev, next_state) ==
    IF prev = next_state THEN "none"
    ELSE CASE next_state = "BelowMin" -> "MIN_SOC_REACHED"
           [] next_state = "AboveMax" -> "MAX_SOC_REACHED"
           [] OTHER -> "none"

BessEvent(asset_id, event_type) ==
    [asset_id |-> asset_id, event_type |-> event_type, severity |-> "warning"]

\* grpc.rs 682-723: maybe_emit_soc_event; event_ok is whether
\* persist_event succeeded
maybe_emit_soc_event(a, soc_mwhr, event_ok) ==
    IF ~Has(Catalogue, a)
    THEN UNCHANGED <<soc_state, events, detected>>
    ELSE LET next_state == soc_zone(Catalogue[a], soc_mwhr)
             prev == IF Has(soc_state, a) THEN soc_state[a] ELSE "NoZone"
             event_type == soc_event(prev, next_state)
         IN  /\ soc_state' = MapPut(soc_state, a, next_state)
             /\ detected' = MapPut(detected, a, soc_mwhr)
             /\ events' = IF event_type # "none" /\ event_ok
                          THEN Append(events, BessEvent(a, event_type))
                          ELSE events

\* grpc.rs 318-365: handle_agent_telemetry with a journal: latest.insert,
\* persist_telemetry, maybe_emit_soc_event
HandleTelemetry(a, soc_mwhr, event_ok) ==
    /\ db
    /\ samples < MaxSamples
    /\ samples' = samples + 1
    /\ latest' = MapPut(latest, a, soc_mwhr)
    /\ jr_telemetry' = MapPut(jr_telemetry, a, TelemetryRow(soc_mwhr, R0, R0))
    /\ maybe_emit_soc_event(a, soc_mwhr, event_ok)
    /\ UNCHANGED <<tickVars, allocVars, simVars, agent_streams, pending_setpoints,
                   connVars, req, requests, reg_mark, db, jr_dispatches, jr_attempts, jr_acked, jr_sessions, bootVars,
                   siteVars, cleanups, lk, ag>>

\* grpc.rs 318-360: handle_agent_telemetry without a journal, or with
\* persist_telemetry failing: only the cache is updated
HandleTelemetryUnjournaled(a, soc_mwhr) ==
    /\ samples < MaxSamples
    /\ samples' = samples + 1
    /\ latest' = MapPut(latest, a, soc_mwhr)
    /\ UNCHANGED <<tickVars, allocVars, simVars, agent_streams, pending_setpoints,
                   connVars, req, requests, reg_mark, soc_state, events, detected,
                   journalVars, bootVars, siteVars, cleanups, lk, ag>>

\* main.rs 365-378: a headend started with or without a journal, the
\* journal holding no row yet
InitSoc ==
    /\ InitHead
    /\ TickIdle
    /\ AllocIdle
    /\ SocIdle
    /\ BootIdle
    /\ SiteIdle
    /\ LockIdle
    /\ AgentIdle
    /\ db \in BOOLEAN
    /\ jr_telemetry = EmptyMap
    /\ jr_dispatches = EmptyMap
    /\ jr_attempts = {}
    /\ jr_acked = {}
    /\ jr_sessions = NoSessions

NextSoc ==
    \/ \E t \in SampleSet, event_ok \in BOOLEAN : HandleTelemetry(t[1], t[2], event_ok)
    \/ \E t \in SampleSet : HandleTelemetryUnjournaled(t[1], t[2])

SpecSoc == InitSoc /\ [][NextSoc]_vars

----------------------------------------------------------------------------
(* create_dispatch on a headend whose agents have registered: SpecSite.    *)

MaxSiteRequests == 2

\* <<asset_id, site_id>> of the requests an operator may submit: neither
\* field, both fields, blank fields, one asset (known, unknown, no uuid),
\* one site (with assets, without, no uuid)
SiteFields ==
    {<<Absent, Absent>>, <<1, 1>>, <<Blank, Blank>>, <<Blank, 1>>, <<1, Absent>>,
     <<9, Absent>>, <<NotUuid, Absent>>, <<Absent, 1>>, <<Absent, 7>>, <<Absent, NotUuid>>}
SiteMw == {Z(35), Z(-35), Z(50)}

\* the assets one agent connection has registered when the requests start
SiteOnline == {<<>>, <<1>>, <<1, 2>>}

\* main.rs 365-378, 277-310 and grpc.rs 94-143: a headend hydrated from
\* its journal, on which the agent of connection 1 has registered the
\* assets of `online` (none: no agent has connected)
InitSite ==
    /\ \E soc \in [CatalogueIds -> UNION {GateSoc(Catalogue[a]) : a \in CatalogueIds}] :
          /\ \A a \in CatalogueIds : soc[a] \in GateSoc(Catalogue[a])
          /\ jr_telemetry = [a \in CatalogueIds |-> TelemetryRow(soc[a], R0, R0)]
          /\ state = [a \in CatalogueIds |-> hydrate_state(Catalogue[a], soc[a], R0, R0)]
    /\ db = TRUE
    /\ jr_dispatches = EmptyMap
    /\ jr_attempts = {}
    /\ jr_acked = {}
    /\ jr_sessions = NoSessions
    /\ dispatches = from_assets_dispatches
    /\ uuids = 0
    /\ latest = EmptyMap
    /\ pending_setpoints = EmptyMap
    /\ inbound = [c \in Conns |-> <<>>]
    /\ req = [h \in Slots |-> IdleReq]
    /\ requests = 0
    /\ \E online \in SiteOnline :
          /\ agent_streams = [a \in Elems(online) |->
                                 [tx |-> 1, site_id |-> Catalogue[a].site_id]]
          /\ reg_mark = [a \in Elems(online) |-> 0]
          /\ conns = IF online = <<>> THEN 0 ELSE 1
          /\ registers = IF online = <<>> THEN 0 ELSE 1
          /\ chan = [c \in Conns |->
                        IF c = 1 /\ online # <<>>
                        THEN [sent |-> <<>>, nread |-> 0, rx_open |-> TRUE]
                        ELSE UnusedChan]
          /\ task = [c \in Conns |->
                        IF c = 1 /\ online # <<>>
                        THEN [pc |-> "recv", todo |-> <<>>, cur |-> online[Len(online)],
                              asset_ids |-> online]
                        ELSE UnusedTask]
    /\ TickIdle
    /\ AllocIdle
    /\ SocIdle
    /\ BootIdle
    /\ SiteIdle
    /\ LockIdle
    /\ AgentIdle

NextSite ==
    \/ \E h \in Slots, f \in SiteFields, mw \in SiteMw :
          requests < MaxSiteRequests /\ CreateDispatch(h, f[1], f[2], mw)
    \/ \E h \in Slots : SiteNext(h)
    \/ \E h \in Slots : GateDispatch(h)
    \/ \E h \in Slots : PushSetpoint(h)
    \/ \E h \in Slots : ParkSetpoint(h)
    \/ \E c \in Conns : AgentClose(c)

SpecSite == InitSite /\ [][NextSite]_vars

----------------------------------------------------------------------------
(* Connections and their receive tasks, with cancellation: SpecConn.       *)

\* grpc.rs 94-311: the receive task is a detached tokio task (its
\* JoinHandle is dropped).  When it is cancelled (the runtime shuts down)
\* its future is dropped at the await it is suspended in: inbound.next(),
\* a lock acquisition, a send or a journal call.  The code after the loop
\* is not run.
TaskCancel(c) ==
    /\ task[c].pc \in {"recv", "reg_insert", "reg_drain", "cleanup"}
    /\ task' = [task EXCEPT ![c].pc = "cancelled"]
    /\ UNCHANGED <<tickVars, allocVars, sideVars, simVars, latest, agent_streams,
                   pending_setpoints, conns, chan, inbound, registers, req,
                   requests, reg_mark>>

NextConn ==
    \/ Accept
    \/ \E c \in Conns, ids \in RegisterLists : AgentSendRegister(c, ids)
    \/ \E c \in Conns : AgentClose(c)
    \/ \E c \in Conns : TaskRegister(c)
    \/ \E c \in Conns : TaskRegisterNext(c)
    \/ \E c \in Conns : TaskDrainPending(c)
    \/ \E c \in Conns : TaskStreamEnd(c)
    \/ \E c \in Conns : TaskCleanup(c)
    \/ \E c \in Conns : TaskCancel(c)

SpecConn == Init /\ [][NextConn]_vars

----------------------------------------------------------------------------
(* Dispatches to an agent that reads slowly: SpecFull.                     *)

MaxFullDispatches == 33

\* main.rs 365-378 and grpc.rs 94-143: a headend without a journal on
\* which the agent of connection 1 has registered asset 1
InitFull ==
    /\ state = from_assets_state
    /\ dispatches = from_assets_dispatches
    /\ uuids = 0
    /\ latest = EmptyMap
    /\ pending_setpoints = EmptyMap
    /\ inbound = [c \in Conns |-> <<>>]
    /\ req = [h \in Slots |-> IdleReq]
    /\ requests = 0
    /\ agent_streams = [a \in {1} |-> [tx |-> 1, site_id |-> Catalogue[a].site_id]]
    /\ reg_mark = [a \in {1} |-> 0]
    /\ conns = 1
    /\ registers = 1
    /\ chan = [c \in Conns |->
                  IF c = 1 THEN [sent |-> <<>>, nread |-> 0, rx_open |-> TRUE]
                  ELSE UnusedChan]
    /\ task = [c \in Conns |->
                  IF c = 1 THEN [pc |-> "recv", todo |-> <<>>, cur |-> 1, asset_ids |-> <<1>>]
                  ELSE UnusedTask]
    /\ TickIdle
    /\ AllocIdle
    /\ SideIdle

NextFull ==
    \/ /\ requests < MaxFullDispatches
       /\ \A h \in Slots : req[h].pc = "idle"
       /\ CreateDispatch(1, 1, Absent, MwLive(requests + 1))
    \/ \E h \in Slots : GateDispatch(h)
    \/ \E h \in Slots : PushSetpoint(h)
    \/ \E h \in Slots : ParkSetpoint(h)
    \/ \E c \in Conns : AgentRecv(c)
    \/ \E c \in Conns : AgentClose(c)

SpecFull == InitFull /\ [][NextFull]_vars

----------------------------------------------------------------------------
(* The Bootstrap RPC of a restarted headend: SpecBoot.                     *)

MaxBoots == 2
MaxBootSamples == 2
MaxBootDispatches == 1

\* asset_ids of a BootstrapRequest: catalogue ids, an id (9) that is not in
\* the catalogue, a repeated id, and a string (0) that is not a uuid
BootLists == {<<1>>, <<1, 2>>, <<9>>, <<2, 9, 1>>, <<1, 1>>, <<0, 1>>}

\* Telemetry a reconnected agent sends after the restart
BootSamples == {<<1, Z(60)>>, <<9, R0>>}

\* What the journal holds at the restart: for asset 1 and for the id 9,
\* possibly a last telemetry row with soc_mwhr = 42 (and the setpoint the
\* agent then reported) and possibly a last dispatch of 3 MW
JournalTelemetryRows ==
    {r \in [{1, 9} -> {None} \cup {TelemetryRow(Z(42), R0, sp) : sp \in {R0, Z(3)}}] :
        r[9] \in {None, TelemetryRow(Z(42), R0, R0)}}
JournalDispatchRows == [{1, 9} -> {None, Z(3)}]

\* grpc.rs 404-413
setpoint_from_dispatch(dispatch) == Setpoint(dispatch)

\* grpc.rs 415-427: dispatch_id None is written 0
setpoint_from_state(asset, st) ==
    IF LeF64Epsilon(RAbs(st.setpoint_mw)) THEN None
    ELSE [asset_id |-> asset.id, mw |-> st.setpoint_mw, dispatch_id |-> 0]

\* grpc.rs 557-570: the Setpoint built from a journal dispatch row
setpoint_from_row(a, row) == [asset_id |-> a, mw |-> row.mw, dispatch_id |-> row.id]

\* telemetry_to_proto, reduced to soc_mwhr
telemetry_to_proto(soc_mwhr) == [soc_mwhr |-> soc_mwhr]

\* grpc.rs 433-441: the cached telemetry of the requested ids
cached_telemetry(ids) == [a \in Elems(ids) \cap DOMAIN latest |-> latest[a]]

\* grpc.rs 443-522: the journal's most recent row of every id still missing
journal_telemetry(ids, telemetry_map) ==
    [a \in DOMAIN telemetry_map \cup (Elems(ids) \cap DOMAIN jr_telemetry) |->
        IF Has(telemetry_map, a) THEN telemetry_map[a] ELSE jr_telemetry[a].soc_mwhr]

\* grpc.rs 587-596: tick_asset(asset, &mut st.clone(), 0.0) for an id that
\* the simulator knows
synthetic_telemetry_skipped(a) == None

synthetic_telemetry(a) ==
    IF Has(Catalogue, a) /\ Has(state, a)
    THEN tick_asset(Catalogue[a], state[a], R0).soc_mwhr
    ELSE None

\* grpc.rs 524-585: the setpoint of id a: the simulator's last dispatch,
\* else (only for an id without one) the journal's last dispatch row, else
\* a non-zero setpoint of the live state
setpoint_of(a) ==
    IF Has(dispatches, a) /\ Has(Catalogue, a) THEN setpoint_from_dispatch(dispatches[a])
    ELSE IF db /\ Has(jr_dispatches, a) /\ Has(Catalogue, a)
         THEN setpoint_from_row(a, jr_dispatches[a])
    ELSE IF Has(Catalogue, a) /\ Has(state, a)
         THEN setpoint_from_state(Catalogue[a], state[a])
    ELSE None

\* grpc.rs 598-605: one AssetBootstrap per requested id, in request order
AssetBootstrap(a, telemetry_map) ==
    [asset_id |-> a,
     telemetry |-> IF Has(telemetry_map, a) THEN telemetry_to_proto(telemetry_map[a])
                   ELSE IF synthetic_telemetry(a) # None
                        THEN telemetry_to_proto(synthetic_telemetry(a))
                   ELSE None,
     setpoint |-> setpoint_of(a)]

BootstrapResponse(ids, telemetry_map) ==
    [status |-> "ok", assets |-> [i \in DOMAIN ids |-> AssetBootstrap(ids[i], telemetry_map)]]

\* the Status a failed call returns
BootstrapError(status) == [status |-> status, assets |-> <<>>]

\* grpc.rs 56-72, 433-441: bootstrap parses the ids, then
\* build_bootstrap_response reads the cache under the latest read lock
BootstrapLatest(ids) ==
    /\ boot.pc = "idle"
    /\ boots < MaxBoots
    /\ boots' = boots + 1
    /\ boot' = IF 0 \in Elems(ids)
               THEN [IdleBoot EXCEPT !.ids = ids, !.resp = BootstrapError("invalid_argument")]
               ELSE [pc |-> "journal", ids |-> ids, telemetry_map |-> cached_telemetry(ids),
                     resp |-> <<>>]
    /\ UNCHANGED <<tickVars, allocVars, headVars, socVars, journalVars, siteVars, cleanups, lk, ag>>

\* grpc.rs 443-522: the journal query for the ids the cache missed;
\* query_ok is whether fetch_all succeeded
BootstrapJournal(query_ok) ==
    /\ boot.pc = "journal"
    /\ LET asked == db /\ Elems(boot.ids) \ DOMAIN boot.telemetry_map # {}
       IN  /\ asked \/ query_ok
           /\ boot' = IF ~asked THEN [boot EXCEPT !.pc = "sim"]
                      ELSE IF query_ok
                      THEN [boot EXCEPT !.pc = "sim",
                                        !.telemetry_map = journal_telemetry(boot.ids, @)]
                      ELSE [boot EXCEPT !.pc = "idle", !.resp = BootstrapError("internal")]
    /\ UNCHANGED <<tickVars, allocVars, headVars, socVars, journalVars, siteVars, cleanups, lk, ag,
                   boots>>

sim_state_ticked_in_place(ids) ==
    [a \in DOMAIN state |->
        IF a \in ids /\ Has(Catalogue, a) THEN tick_state(Catalogue[a], state[a], R0)
        ELSE state[a]]

\* grpc.rs 592-593, http.rs 456-457: `let mut tmp_state = st.clone();
\* tick_asset(asset, &mut tmp_state, 0.0)`: the simulator's state after the
\* synthetic tick of the ids, which writes to the clone
sim_state_after_synthetic(ids) == state

\* grpc.rs 524-607: the rest of build_bootstrap_response under the
\* simulator's read lock; query_ok is whether the dispatch query succeeded
BootstrapSim(query_ok) ==
    /\ boot.pc = "sim"
    /\ LET asked == db /\ \E a \in Elems(boot.ids) : ~(Has(dispatches, a) /\ Has(Catalogue, a))
       IN  /\ asked \/ query_ok
           /\ boot' = IF asked /\ ~query_ok
                      THEN [boot EXCEPT !.pc = "idle", !.resp = BootstrapError("internal")]
                      ELSE [boot EXCEPT !.pc = "idle",
                                !.resp = BootstrapResponse(boot.ids, boot.telemetry_map)]
           /\ state' = IF asked /\ ~query_ok THEN state
                        ELSE sim_state_after_synthetic(Elems(boot.ids) \ DOMAIN boot.telemetry_map)
    /\ UNCHANGED <<tickVars, allocVars, dispatches, uuids, latest, agent_streams,
                   pending_setpoints, connVars, req, requests, reg_mark, socVars, journalVars,
                   siteVars, cleanups, lk, ag, boots>>

\* main.rs 365-378, 277-310: a restarted headend: the simulator is built
\* from the catalogue, hydrated from the journal's last telemetry rows when
\* there is a journal, and the caches are empty
InitBoot ==
    /\ db \in BOOLEAN
    /\ \E rows \in JournalTelemetryRows, sent \in JournalDispatchRows :
          /\ jr_telemetry = IF db THEN [a \in {x \in {1, 9} : rows[x] # None} |-> rows[a]]
                            ELSE EmptyMap
          /\ jr_dispatches = IF db
                             THEN [a \in {x \in {1, 9} : sent[x] # None} |->
                                      DispatchRow(100 + a, sent[a])]
                             ELSE EmptyMap
    /\ jr_attempts = {}
    /\ jr_acked = {}
    /\ jr_sessions = NoSessions
    /\ state = [a \in CatalogueIds |->
                   IF Has(jr_telemetry, a)
                   THEN hydrate_state(Catalogue[a], jr_telemetry[a].soc_mwhr,
                                      jr_telemetry[a].current_mw, jr_telemetry[a].setpoint_mw)
                   ELSE initial_state(Catalogue[a])]
    /\ InitApp
    /\ TickIdle
    /\ AllocIdle
    /\ SocIdle
    /\ BootIdle
    /\ SiteIdle
    /\ LockIdle
    /\ AgentIdle

NextBoot ==
    \/ \E ids \in BootLists : BootstrapLatest(ids)
    \/ \E query_ok \in BOOLEAN : BootstrapJournal(query_ok)
    \/ \E query_ok \in BOOLEAN : BootstrapSim(query_ok)
    \/ \E t \in BootSamples : samples < MaxBootSamples /\ HandleTelemetry(t[1], t[2], TRUE)
    \/ \E t \in BootSamples :
          samples < MaxBootSamples /\ HandleTelemetryUnjournaled(t[1], t[2])
    \/ \E h \in Slots :
          requests < MaxBootDispatches /\ SubmitDispatch(h, 1, MwLive(requests + 1))
    \/ \E h \in Slots : GateDispatch(h)
    \/ \E h \in Slots : PushSetpoint(h)
    \/ \E h \in Slots : ParkSetpoint(h)

SpecBoot == InitBoot /\ [][NextBoot]_vars

----------------------------------------------------------------------------
(* Claims about the physics tick (SpecTick).                               *)

InRange(x, lo, hi) == RLe(lo, x) /\ RLe(x, hi)

RampLimit(asset, dt_secs) == RDiv(RMul(asset.ramp_rate_mw_per_min, dt_secs), Z(60))

\* C9: after any tick, min_mw <= current_mw <= max_mw and
\* min_soc <= soc_mwhr <= max_soc.
C9_TickBounds ==
    tkTicks > 0 =>
        /\ InRange(tkState.current_mw, tkAsset.min_mw, tkAsset.max_mw)
        /\ InRange(tkState.soc_mwhr, soc_bounds(tkAsset)[1], soc_bounds(tkAsset)[2])

\* a tick whose integration left the SOC band, so that the clamp acted
C9_Witness ==
    /\ tkTicks > 0
    /\ RLt(soc_step_unclamped(tkAsset, tkPrev.soc_mwhr,
                              ramp_step(tkAsset, tkPrev, tkDt), tkDt),
           soc_bounds(tkAsset)[1])
    /\ tkState.soc_mwhr = soc_bounds(tkAsset)[1]

\* C10 as stated: for any tick, |current_mw' - current_mw| <= ramp * dt / 60
\* for the value of current_mw when the tick returns.
C10_RampBoundOnReturn ==
    tkTicks > 0 =>
        RLe(RAbs(RSub(tkState.current_mw, tkPrev.current_mw)), RampLimit(tkAsset, tkDt))

\* C10 amended: the bound holds for the returned current_mw unless the SOC
\* boundary clamp fired in that tick, and then current_mw and setpoint_mw
\* are returned as zero.
C10_RampBoundUnlessBoundary ==
    tkTicks > 0 =>
        \/ RLe(RAbs(RSub(tkState.current_mw, tkPrev.current_mw)), RampLimit(tkAsset, tkDt))
        \/ /\ at_boundary(tkAsset, tkState.soc_mwhr, ramp_step(tkAsset, tkPrev, tkDt))
           /\ tkState.current_mw = R0
           /\ tkState.setpoint_mw = R0

\* a tick in which the ramp limit held the output short of its setpoint
C10_Witness ==
    /\ tkTicks > 0
    /\ RGt(tkDt, R0)
    /\ tkState.current_mw # tkState.setpoint_mw
    /\ RAbs(RSub(tkState.current_mw, tkPrev.current_mw)) = RampLimit(tkAsset, tkDt)
    /\ RGt(RampLimit(tkAsset, tkDt), R0)

----------------------------------------------------------------------------
(* Claims about the site allocator (SpecAlloc).                            *)

SortedOnline == resolve_site_targets(alOnline)

AllocSum(allocations) == RSum([i \in 1..Len(allocations) |-> allocations[i].mw])

Conserved(allocations) == ~GtTol(RSub(AllocSum(allocations), alTotal))

\* residual and headroom left by the initial clamp, before any repair pass
ResidualAfterClamp ==
    RSub(alTotal, RSum(initial_clamp(SortedOnline, raw_split(SortedOnline, alTotal))))

HeadroomAfterClamp ==
    LET c == initial_clamp(SortedOnline, raw_split(SortedOnline, alTotal))
        dir == RGt(ResidualAfterClamp, R0)
    IN  total_headroom_of([i \in 1..Len(c) |-> headroom_of(SortedOnline[i], c[i], dir)], dir)

PositiveCapacity == ~LeF64Epsilon(cap_sum_of(SortedOnline))

\* C6 as stated: when at least one participating asset has strictly
\* positive headroom in the direction of the residual, the allocations
\* returned after the repair loop sum to mw_total within 1e-6.
C6_ConservedIfSomeHeadroom ==
    \A r \in 1..Len(alRuns) :
        (PositiveCapacity /\ GtTol(ResidualAfterClamp) /\ RGt(HeadroomAfterClamp, R0))
            => Conserved(alRuns[r].allocations)

\* C6 amended: with positive total capacity, when the participating assets'
\* total headroom in the direction of the residual left by the initial
\* clamp is at least |residual|, the allocations sum to mw_total within 1e-6.
C6_ConservedIfEnoughHeadroom ==
    \A r \in 1..Len(alRuns) :
        (PositiveCapacity /\ RGe(HeadroomAfterClamp, RAbs(ResidualAfterClamp)))
            => Conserved(alRuns[r].allocations)

\* a dispatch whose initial clamp left a residual that the repair absorbed
C6_Witness ==
    /\ Len(alRuns) > 0
    /\ PositiveCapacity
    /\ GtTol(ResidualAfterClamp)
    /\ RGe(HeadroomAfterClamp, RAbs(ResidualAfterClamp))
    /\ Conserved(alRuns[1].allocations)

AssetById(id) == SitePool[id]

\* C7: every allocation satisfies min_mw_i <= mw_i <= max_mw_i, on the
\* zero-capacity branch, after the initial clamp and after the repair
\* passes, in the headend's allocator and in the agent's.
C7_AllocationsBounded ==
    /\ \A r \in 1..Len(alRuns) : \A i \in 1..Len(alRuns[r].allocations) :
          LET a == alRuns[r].allocations[i]
          IN  InRange(a.mw, AssetById(a.asset_id).min_mw, AssetById(a.asset_id).max_mw)
    /\ \A i \in 1..Len(alAgent) :
          InRange(alAgent[i], SortedOnline[i].min_mw, SortedOnline[i].max_mw)

\* a dispatch the assets cannot absorb: the repair pass overshoots every
\* limit and is clamped back
C7_Witness ==
    /\ Len(alRuns) > 0
    /\ alAgent # <<>>
    /\ PositiveCapacity
    /\ RGt(RAbs(ResidualAfterClamp), HeadroomAfterClamp)
    /\ RGt(HeadroomAfterClamp, R0)
    /\ ~Conserved(alRuns[1].allocations)

\* C8: two site dispatches over the same online assets and the same
\* mw_total return the same allocation vector, whatever order the stream
\* registry was enumerated in.
C8_SameAllocations ==
    \A r, q \in 1..Len(alRuns) : alRuns[r].allocations = alRuns[q].allocations

\* two dispatches that enumerated the registry in different orders
C8_Witness ==
    /\ Len(alRuns) = 2
    /\ alRuns[1].order # alRuns[2].order
    /\ Cardinality(alOnline) > 1
    /\ \E i \in 1..Len(alRuns[1].allocations) : alRuns[1].allocations[i].clamped

----------------------------------------------------------------------------
(* Claims about pending setpoints and delivery (Spec).                     *)

\* The receive task of connection c completes the pending-drain of the
\* asset it has just registered
DrainStep(c) == task[c].pc = "reg_drain" /\ task'[c].pc # "reg_drain"

\* Frames for asset a enqueued on log `sent` after its first `mark` frames
FramesSince(sent, mark, a) ==
    SelectSeq(SubSeq(sent, mark + 1, Len(sent)), LAMBDA f : f.asset_id = a)

\* C1: when a stream is registered for an asset that has a parked
\* dispatch, the first frame for that asset which the headend puts on the
\* new (open) stream's mailbox is the Setpoint of the parked dispatch, and
\* the drain leaves no pending entry for the asset.
C1_ParkedSetpointIsFirstFrame ==
    [][\A c \in Conns :
          (DrainStep(c) /\ Has(pending_setpoints, task[c].cur) /\ chan[c].rx_open)
          => LET a == task[c].cur
                 frames == FramesSince(chan'[c].sent, reg_mark[a], a)
             IN  /\ frames # <<>>
                 /\ frames[1] = Setpoint(pending_setpoints[a])
                 /\ ~Has(pending_setpoints', a)]_vars

\* C2: a pending setpoint leaves pending_setpoints only in a step in which
\* the mailbox of the asset's stream accepts its Setpoint frame.
C2_RemovedOnlyIfMailboxAccepts ==
    [][\A a \in CatalogueIds :
          (Has(pending_setpoints, a) /\ ~Has(pending_setpoints', a))
          => \E c \in Conns :
                chan'[c].sent = Append(chan[c].sent, Setpoint(pending_setpoints[a]))]_vars

\* Where an accepted dispatch can be on its way to the agent
Received(d) ==
    \E c \in Conns : \E i \in 1..chan[c].nread : chan[c].sent[i] = Setpoint(d)
InOpenMailbox(d) ==
    \E c \in Conns :
        /\ chan[c].rx_open
        /\ \E i \in (chan[c].nread + 1)..Len(chan[c].sent) : chan[c].sent[i] = Setpoint(d)
Parked(d) == Has(pending_setpoints, d.asset_id) /\ pending_setpoints[d.asset_id] = d
InHandler(d) == \E h \in Slots : req[h].pc \in {"push", "park"} /\ req[h].dispatch = d

\* C3: the latest accepted dispatch of an asset is never lost: it has been
\* received by the agent, or it waits in an open stream's mailbox, or it
\* is parked, or its handler still holds it; so an agent that registers a
\* stream which stays open receives it.
C3_LatestDispatchNeverLost ==
    \A a \in CatalogueIds :
        dispatches[a].id > 0
        => \/ Received(dispatches[a])
           \/ InOpenMailbox(dispatches[a])
           \/ Parked(dispatches[a])
           \/ InHandler(dispatches[a])

\* The handler in slot h accepts its request / parks its dispatch in this step
AcceptStep(h) == req[h].pc = "gate" /\ req'[h].pc = "push"
ParkStep(h) == req[h].pc = "park" /\ req'[h].pc # "park"

\* C4: every catalogue asset has exactly one last dispatch, the synthetic
\* accepted 0 MW dispatch until a request for the asset is accepted and
\* then the dispatch of the latest accepting step; it has at most one
\* pending setpoint, and parking replaces whatever was parked before.
C4_OneLastDispatchOnePending ==
    /\ [](/\ DOMAIN dispatches = CatalogueIds
          /\ DOMAIN pending_setpoints \subseteq CatalogueIds
          /\ \A a \in CatalogueIds :
                /\ dispatches[a].asset_id = a
                /\ dispatches[a].status = "accepted"
                /\ dispatches[a].id < 0 => dispatches[a] = Dispatch(-a, a, R0, FALSE)
                /\ Has(pending_setpoints, a) => pending_setpoints[a].asset_id = a)
    /\ [][/\ \A a \in CatalogueIds :
                dispatches'[a] # dispatches[a]
                => \E h \in Slots :
                      /\ AcceptStep(h)
                      /\ req[h].asset_id = a
                      /\ dispatches'[a] = Dispatch(uuids + 1, a, req[h].mw, req[h].clamped)
          /\ \A h \in Slots :
                ParkStep(h)
                => pending_setpoints' =
                      [a \in DOMAIN pending_setpoints \cup {req[h].dispatch.asset_id} |->
                          IF a = req[h].dispatch.asset_id THEN req[h].dispatch
                          ELSE pending_setpoints[a]]]_vars

\* Two dispatches for asset 1 were accepted and parked with no agent ever
\* connected; the second replaced the first, asset 2 is still synthetic.
C4_Witness ==
    /\ conns = 0
    /\ uuids = 2
    /\ \A h \in Slots : req[h].pc = "idle"
    /\ dispatches[1].id = 2
    /\ dispatches[2].id = -2
    /\ Has(pending_setpoints, 1)
    /\ pending_setpoints[1].id = 2
    /\ ~Has(pending_setpoints, 2)

----------------------------------------------------------------------------
(* Claims about the dispatch gate (SpecGate).                              *)

AboveMin(a, soc) == RGt(soc, RAdd(soc_bounds(Catalogue[a])[1], eps))
BelowMax(a, soc) == RLt(soc, RSub(soc_bounds(Catalogue[a])[2], eps))

----------------------------------------------------------------------------
(* Claims about the SOC event detector (SpecSoc).                          *)

\* C11: the detector emits an event for an asset only in a step whose
\* sample's zone differs from the zone last recorded for the asset (and
\* from the zone of the last sample the detector saw); the zone recorded
\* is the zone of that last sample, so consecutive samples in one zone
\* emit no further event.
C11_EventOnlyOnZoneChange ==
    /\ [](\A a \in DOMAIN soc_state :
            Has(detected, a) /\ soc_state[a] = soc_zone(Catalogue[a], detected[a]))
    /\ [][events' # events
          => /\ Len(events') = Len(events) + 1
             /\ SubSeq(events', 1, Len(events)) = events
             /\ LET e == events'[Len(events')]
                    zone == soc_zone(Catalogue[e.asset_id], detected'[e.asset_id])
                IN  /\ soc_state'[e.asset_id] = zone
                    /\ zone # "InRange"
                    /\ e.event_type = IF zone = "BelowMin" THEN "MIN_SOC_REACHED"
                                      ELSE "MAX_SOC_REACHED"
                    /\ Has(soc_state, e.asset_id)
                       => /\ soc_state[e.asset_id] # zone
                          /\ soc_zone(Catalogue[e.asset_id], detected[e.asset_id]) # zone]_vars

\* Three samples of asset 1 were ingested, the detector recorded BelowMin
\* and exactly one event was emitted.
C11_Witness ==
    /\ samples = 3
    /\ DOMAIN latest = {1}
    /\ Has(soc_state, 1)
    /\ soc_state[1] = "BelowMin"
    /\ Len(events) = 1
    /\ events[1] = BessEvent(1, "MIN_SOC_REACHED")

----------------------------------------------------------------------------
(* Bootstrap (SpecBoot)                                                    *)

\* a Bootstrap call has returned; boot holds its ids and its result
BootDone == boot.pc = "idle" /\ boots > 0

BootOk == BootDone /\ boot.resp.status = "ok"

\* one entry per requested id, in request order
EntryPerId ==
    /\ DOMAIN boot.resp.assets = DOMAIN boot.ids
    /\ \A i \in DOMAIN boot.ids : boot.resp.assets[i].asset_id = boot.ids[i]

\* the telemetry the response gives id a when the handler's telemetry_map
\* (cache, then journal) is m and the simulator state is the current one
TelemetryBySource(a, m) ==
    IF Has(m, a) THEN telemetry_to_proto(m[a])
    ELSE IF Has(Catalogue, a)
         THEN telemetry_to_proto(tick_asset(Catalogue[a], state[a], R0).soc_mwhr)
    ELSE None

RestartedWithJournal ==
    /\ db
    /\ samples = 0
    /\ requests = 0
    /\ Has(jr_telemetry, 1)
    /\ jr_telemetry[1].soc_mwhr = Z(42)
    /\ Has(jr_dispatches, 1)
    /\ jr_dispatches[1].mw = Z(3)

\* C13: in the restart scenario Bootstrap([1]) returns telemetry with
\* soc_mwhr = 42 and a setpoint of 3 MW carrying the id of the journal's
\* most recent dispatch.
C13_RestartSetpointFromJournal ==
    (RestartedWithJournal /\ BootOk /\ boot.ids = <<1>>) =>
        /\ boot.resp.assets[1].telemetry = telemetry_to_proto(Z(42))
        /\ boot.resp.assets[1].setpoint # None
        /\ boot.resp.assets[1].setpoint.mw = Z(3)
        /\ boot.resp.assets[1].setpoint.dispatch_id = jr_dispatches[1].id

----------------------------------------------------------------------------
(* Disconnect cleanup                                                      *)

\* the registry entries that point at connection c's mailbox
StreamsOf(c) == {a \in DOMAIN agent_streams : agent_streams[a].tx = c}

\* C17: once a connection's receive loop has ended and its cleanup is
\* through, no asset this connection registered is left in the stream
\* registry with this connection's stream.
C17_EndedConnectionLeavesNoStream ==
    \A c \in Conns : task[c].pc = "ended" => StreamsOf(c) = {}

----------------------------------------------------------------------------
(* create_dispatch (SpecSite)                                              *)

\* what a rejected request must leave alone
DispatchFrame == <<state, dispatches, pending_setpoints, chan>>

\* the response answers a request with both or neither of asset_id, site_id
BothOrNeither(r) == r # NoResponse /\ field_set(r.asset_id) = field_set(r.site_id)

\* C14: a request with both asset_id and site_id set, or with neither, is
\* answered BadRequest without occupying a handler, and a request answered
\* on the spot changes no simulator state, last dispatch, pending entry or
\* mailbox.
C14_BothOrNeitherIsBadRequest ==
    /\ [](\A h \in Slots :
            BothOrNeither(http[h]) =>
                /\ http[h].status = "bad_request"
                /\ http[h].reason = "provide exactly one of asset_id or site_id")
    /\ [][\A h \in Slots :
            (http'[h] # http[h] /\ BothOrNeither(http'[h])) =>
                /\ req' = req
                /\ UNCHANGED DispatchFrame]_vars
    /\ [][(requests' # requests /\ req' = req) => UNCHANGED DispatchFrame]_vars

\* A request with both fields set was refused while an accepted dispatch of
\* another request is on its way to the agent
C14_Witness ==
    /\ http[2] = Response("bad_request", "provide exactly one of asset_id or site_id", 1, 1)
    /\ req[1].pc = "push"
    /\ dispatches[1].id = 1
    /\ state[1].setpoint_mw = Z(35)

\* the conditions under which set_dispatch rejects request slot h
UnknownAsset(h) == ~Has(Catalogue, req[h].asset_id)
OutOfBounds(h) ==
    \/ RGt(req[h].mw, Catalogue[req[h].asset_id].max_mw)
    \/ RLt(req[h].mw, Catalogue[req[h].asset_id].min_mw)
AtMinSoc(h) ==
    /\ RGt(req[h].mw, R0)
    /\ ~AboveMin(req[h].asset_id, gate_soc(state[req[h].asset_id], req[h].soc_override))
AtMaxSoc(h) ==
    /\ RLt(req[h].mw, R0)
    /\ ~BelowMax(req[h].asset_id, gate_soc(state[req[h].asset_id], req[h].soc_override))
Rejects(h) == UnknownAsset(h) \/ OutOfBounds(h) \/ AtMinSoc(h) \/ AtMaxSoc(h)

\* C15: the step of a handler whose request set_dispatch rejects (unknown
\* asset, at min SOC, at max SOC, out of bounds) ends the handler and
\* leaves every setpoint_mw, last dispatch, pending entry and mailbox as
\* it was; and a handler only ends at the gate for one of these reasons.
C15_RejectedChangesNothing ==
    [][\A h \in Slots :
          (req[h].pc = "gate" /\ req'[h] # req[h]) =>
              IF Rejects(h)
              THEN /\ req'[h].pc \in {"idle", "site"}
                   /\ UNCHANGED DispatchFrame
                   /\ UNCHANGED jr_dispatches
              ELSE req'[h].pc = "push"]_vars

\* Asset 1 runs at the 35 MW of an accepted dispatch; a later -35 MW
\* request was rejected at max SOC
C15_Witness ==
    /\ http[1].status = "bad_request"
    /\ http[1].reason = "dispatch rejected: at max SOC"
    /\ uuids = 1
    /\ dispatches[1].id = 1
    /\ state[1].setpoint_mw = Z(35)

\* C19: when a site fan-out has returned, every asset that got an
\* allocation has a row of its own among the per-asset results of the
\* response, whether its sub-dispatch was accepted or rejected.
C19_EveryAllocationHasResultRow ==
    \A h \in Slots :
        site[h].pc = "done" =>
            \A i \in DOMAIN site[h].allocations :
                \E j \in DOMAIN site[h].results :
                    site[h].results[j].asset_id = site[h].allocations[i].asset_id

----------------------------------------------------------------------------
(* A full mailbox (SpecFull)                                               *)

\* the handler of slot h is about to send to an open stream whose mailbox
\* holds MailboxCap unread frames
FacesFullMailbox(h) ==
    /\ req[h].pc = "push"
    /\ Has(agent_streams, req[h].dispatch.asset_id)
    /\ chan[agent_streams[req[h].dispatch.asset_id].tx].rx_open
    /\ Len(Unread(chan[agent_streams[req[h].dispatch.asset_id].tx])) = MailboxCap

\* C16: a handler that finds the mailbox of the target stream full does not
\* wait: its next step (to the pending path) can be taken at once.
C16_FullMailboxDoesNotBlock ==
    \A h \in Slots : FacesFullMailbox(h) => ENABLED PushSetpoint(h)

\* the receive task of connection c is over
TaskOver(c) == task[c].pc \in {"ended", "cancelled"}

\* C18: the disconnect cleanup of a connection never runs twice, and once
\* the receive task of a connection that registered an asset is over,
\* however it ended, the cleanup has run once.
C18_CleanupExactlyOnce ==
    \A c \in Conns :
        /\ cleanups[c] <= 1
        /\ (TaskOver(c) /\ task[c].asset_ids # <<>>) => cleanups[c] = 1

----------------------------------------------------------------------------
(* Site allocation within the site's limits (SpecAlloc)                    *)

MinSum == RSum([i \in 1..Len(SortedOnline) |-> SortedOnline[i].min_mw])
MaxSum == RSum([i \in 1..Len(SortedOnline) |-> SortedOnline[i].max_mw])

WithinSiteLimits == RLe(MinSum, alTotal) /\ RLe(alTotal, MaxSum)

\* the site of the reference scenario: A and B online, 35 MW requested
ReferenceSite == alOnline = {1, 2} /\ alTotal = Z(35)

\* C20: for a site with positive total capacity and mw_total within
\* [sum of min_mw, sum of max_mw] the allocations returned sum to mw_total
\* within 1e-6; for A and B with mw_total = 35 they are A = 15 and B = 20
\* with B marked clamped.
C20_ConservedWithinSiteLimits ==
    \A r \in 1..Len(alRuns) :
        /\ (PositiveCapacity /\ WithinSiteLimits) => Conserved(alRuns[r].allocations)
        /\ ReferenceSite =>
              /\ Len(alRuns[r].allocations) = 2
              /\ alRuns[r].allocations[1].asset_id = 1
              /\ alRuns[r].allocations[1].mw = Z(15)
              /\ alRuns[r].allocations[2].asset_id = 2
              /\ alRuns[r].allocations[2].mw = Z(20)
              /\ alRuns[r].allocations[2].clamped

\* the reference site has been allocated, by a dispatch whose initial
\* clamp left a residual for the repair loop
C20_Witness ==
    /\ ReferenceSite
    /\ Len(alRuns) > 0
    /\ PositiveCapacity
    /\ WithinSiteLimits
    /\ GtTol(ResidualAfterClamp)
    /\ alRuns[1].allocations[2].mw = Z(20)

----------------------------------------------------------------------------
(* Order of Setpoints of one asset (Spec)                                  *)

\* a Setpoint for asset a of a dispatch accepted after dispatch id `id`
\* has been enqueued on some stream
LaterEnqueued(a, id) ==
    \E c \in Conns : \E i \in 1..Len(chan[c].sent) :
        chan[c].sent[i].asset_id = a /\ chan[c].sent[i].dispatch_id > id

\* the pending entry of asset a is a dispatch accepted after dispatch `id`
LaterParked(a, id) == Has(pending_setpoints, a) /\ pending_setpoints[a].id > id

\* C21: of two dispatches accepted for the same asset, the Setpoint of the
\* later one is never enqueued on a stream or parked while the earlier
\* one's handler has not yet enqueued or parked its own Setpoint.
C21_SetpointsInAcceptanceOrder ==
    \A h \in Slots :
        req[h].pc \in {"push", "park"}
        => /\ ~LaterEnqueued(req[h].dispatch.asset_id, req[h].dispatch.id)
           /\ ~LaterParked(req[h].dispatch.asset_id, req[h].dispatch.id)

----------------------------------------------------------------------------
(* Telemetry from a stream and from POST /telemetry: SpecTel.              *)

MaxStreamSamples == 3

\* agent_to_headend::Msg::Telemetry, reduced to asset_id and soc_mwhr;
\* decodes is whether its asset_id, site_id and timestamp parse
\* (grpc.rs 319-323)
TelemetryFrame(asset_id, soc_mwhr, decodes) ==
    [asset_id |-> asset_id, soc_mwhr |-> soc_mwhr, decodes |-> decodes]

\* Frames an agent may send: two SOC values per asset, and one whose
\* timestamp is not RFC3339
StreamFrames ==
    {TelemetryFrame(a, soc, TRUE) : a \in CatalogueIds, soc \in TelemetrySoc}
        \cup {TelemetryFrame(1, Z(50), FALSE)}

\* SOC values a non-streaming producer may POST
PushedSoc == {Z(50), Z(60)}

\* telemetry frames written by the agents and not yet received
Queued == Len(inbound[1]) + Len(inbound[2])

\* grpc.rs 355-358, http.rs 551-552: latest.insert(asset_id, snapshot)
\* under the write lock; the first keeps an entry the cache already has
latest_insert_if_absent(a, soc_mwhr) ==
    IF Has(latest, a) THEN latest ELSE MapPut(latest, a, soc_mwhr)

latest_insert(a, soc_mwhr) == MapPut(latest, a, soc_mwhr)

\* grpc.rs 354-360: the cache once handle_agent_telemetry has returned,
\* `persisted` being whether persist_telemetry(..)? let it go on.  The
\* first persists before it inserts.
telemetry_cache_persist_first(f, persisted) ==
    IF persisted THEN latest_insert(f.asset_id, f.soc_mwhr) ELSE latest

telemetry_cache(f, persisted) == latest_insert(f.asset_id, f.soc_mwhr)

\* The agent writes a Telemetry frame
AgentSendTelemetry(c, f) ==
    /\ chan[c].rx_open
    /\ samples + Queued < MaxStreamSamples
    /\ inbound' = [inbound EXCEPT ![c] = Append(@, f)]
    /\ UNCHANGED <<tickVars, allocVars, sideVars, simVars, latest, agent_streams,
                   pending_setpoints, conns, chan, task, registers, req, requests,
                   reg_mark>>

\* grpc.rs 249-255, 318-365: the receive task takes a Telemetry frame and
\* runs handle_agent_telemetry: decode, latest.insert, then with a journal
\* persist_telemetry? and maybe_emit_soc_event?.  An Err is logged and the
\* loop goes on.
TaskTelemetry(c, persist_ok, event_ok) ==
    /\ task[c].pc = "recv"
    /\ inbound[c] # <<>>
    /\ "soc_mwhr" \in DOMAIN Head(inbound[c])
    /\ inbound' = [inbound EXCEPT ![c] = Tail(@)]
    /\ samples' = samples + 1
    /\ LET f == Head(inbound[c])
       IN  /\ latest' = IF f.decodes THEN telemetry_cache(f, ~db \/ persist_ok) ELSE latest
           /\ IF f.decodes /\ db /\ persist_ok
              THEN /\ jr_telemetry' =
                          MapPut(jr_telemetry, f.asset_id, TelemetryRow(f.soc_mwhr, R0, R0))
                   /\ maybe_emit_soc_event(f.asset_id, f.soc_mwhr, event_ok)
              ELSE UNCHANGED <<jr_telemetry, soc_state, events, detected>>
    /\ UNCHANGED <<tickVars, allocVars, simVars, agent_streams, pending_setpoints,
                   conns, chan, task, registers, req, requests, reg_mark, db,
                   jr_dispatches, jr_attempts, jr_acked, jr_sessions, bootVars, siteVars, cleanups, lk, ag>>

\* http.rs 545-563: ingest_telemetry (POST /telemetry): latest.insert,
\* then with a journal persist_telemetry, whose failure only changes the
\* status of the response
ingest_telemetry(a, soc_mwhr, persist_ok) ==
    /\ samples + Queued < MaxStreamSamples
    /\ samples' = samples + 1
    /\ latest' = latest_insert(a, soc_mwhr)
    /\ jr_telemetry' = IF db /\ persist_ok
                       THEN MapPut(jr_telemetry, a, TelemetryRow(soc_mwhr, R0, R0))
                       ELSE jr_telemetry
    /\ UNCHANGED <<tickVars, allocVars, simVars, agent_streams, pending_setpoints,
                   connVars, req, requests, reg_mark, soc_state, events, detected, db,
                   jr_dispatches, jr_attempts, jr_acked, jr_sessions, bootVars, siteVars, cleanups, lk, ag>>

\* main.rs 365-378 and grpc.rs 94-143: a headend with or without a journal
\* on which the agent of connection 1 has registered assets 1 and 2
InitTel ==
    /\ state = from_assets_state
    /\ dispatches = from_assets_dispatches
    /\ uuids = 0
    /\ latest = EmptyMap
    /\ pending_setpoints = EmptyMap
    /\ inbound = [c \in Conns |-> <<>>]
    /\ req = [h \in Slots |-> IdleReq]
    /\ requests = 0
    /\ agent_streams = [a \in CatalogueIds |-> [tx |-> 1, site_id |-> Catalogue[a].site_id]]
    /\ reg_mark = [a \in CatalogueIds |-> 0]
    /\ conns = 1
    /\ registers = 1
    /\ chan = [c \in Conns |->
                  IF c = 1 THEN [sent |-> <<>>, nread |-> 0, rx_open |-> TRUE]
                  ELSE UnusedChan]
    /\ task = [c \in Conns |->
                  IF c = 1 THEN [pc |-> "recv", todo |-> <<>>, cur |-> 2, asset_ids |-> <<1, 2>>]
                  ELSE UnusedTask]
    /\ db \in BOOLEAN
    /\ jr_telemetry = EmptyMap
    /\ jr_dispatches = EmptyMap
    /\ jr_attempts = {}
    /\ jr_acked = {}
    /\ jr_sessions = [a \in CatalogueIds |-> IF db THEN 1 ELSE 0]
    /\ TickIdle
    /\ AllocIdle
    /\ SocIdle
    /\ BootIdle
    /\ SiteIdle
    /\ LockIdle
    /\ AgentIdle

NextTel ==
    \/ \E c \in Conns, f \in StreamFrames : AgentSendTelemetry(c, f)
    \/ \E c \in Conns, persist_ok \in BOOLEAN, event_ok \in BOOLEAN :
          TaskTelemetry(c, persist_ok, event_ok)
    \/ \E a \in CatalogueIds, soc \in PushedSoc, persist_ok \in BOOLEAN :
          ingest_telemetry(a, soc, persist_ok)
    \/ \E c \in Conns : AgentClose(c)
    \/ \E c \in Conns : TaskStreamEnd(c)
    \/ \E c \in Conns : TaskCleanup(c)

SpecTel == InitTel /\ [][NextTel]_vars

----------------------------------------------------------------------------
(* Claims about telemetry ingest (SpecTel)                                 *)

\* the receive task of connection c takes a frame in this step
ReceiveStep(c) == Len(inbound'[c]) < Len(inbound[c])

\* C22: the receive task of a connection takes the frames in the order in
\* which they arrived, and each frame that decodes replaces latest[asset]
\* and nothing else of the cache; the cache only ever changes by one such
\* replacement, whichever source (stream or POST /telemetry) it comes
\* from, so the frame applied last is the one the cache holds.
C22_AppliedInArrivalOrder ==
    [][/\ \A c \in Conns :
             ReceiveStep(c)
             => /\ inbound'[c] = Tail(inbound[c])
                /\ Head(inbound[c]).decodes
                   => latest' = [a \in DOMAIN latest \cup {Head(inbound[c]).asset_id} |->
                                    IF a = Head(inbound[c]).asset_id
                                    THEN Head(inbound[c]).soc_mwhr ELSE latest[a]]
       /\ latest' # latest
          => \E a \in CatalogueIds, soc \in TelemetrySoc \cup PushedSoc :
                /\ Has(latest', a)
                /\ latest'[a] = soc
                /\ \A b \in DOMAIN latest' \ {a} : Has(latest, b) /\ latest'[b] = latest[b]]_vars

\* Connection 1 delivered a frame with SOC 0 and then one with SOC 50 for
\* asset 1, both journalled: the detector recorded the first as the
\* minimum being reached and the second as back in range, and the cache
\* holds the second.
C22_Witness ==
    /\ samples = 2
    /\ events = <<BessEvent(1, "MIN_SOC_REACHED")>>
    /\ Has(soc_state, 1)
    /\ soc_state[1] = "InRange"
    /\ latest[1] = Z(50)
    /\ inbound[1] = <<>>

\* the journal holds no more after the step than before: no append, or
\* a failed one
NothingJournalled == jr_telemetry' = jr_telemetry

\* C27: when the receive task of a headend with a journal takes a frame
\* that decodes and the journal append fails, latest[asset_id] is the
\* frame's value after the step, the task is back waiting for the next
\* frame, which is the one that arrived next, and the stream registry is
\* unchanged.
C27_FrameKeptWhenAppendFails ==
    [][\A c \in Conns :
          (ReceiveStep(c) /\ Head(inbound[c]).decodes /\ db /\ NothingJournalled)
          => /\ Has(latest', Head(inbound[c]).asset_id)
             /\ latest'[Head(inbound[c]).asset_id] = Head(inbound[c]).soc_mwhr
             /\ task'[c].pc = "recv"
             /\ inbound'[c] = Tail(inbound[c])
             /\ agent_streams' = agent_streams]_vars

\* The append of the first frame of connection 1 (asset 1 at SOC 0, a
\* value only a stream delivers) failed: the journal has no row, the
\* cache has the frame, the task waits with the next frame buffered and
\* both assets are still registered.
C27_Witness ==
    /\ db
    /\ samples = 1
    /\ jr_telemetry = EmptyMap
    /\ Has(latest, 1)
    /\ latest[1] = R0
    /\ task[1].pc = "recv"
    /\ inbound[1] # <<>>
    /\ DOMAIN agent_streams = {1, 2}

----------------------------------------------------------------------------
(* Frame of an accepted set_dispatch (SpecSite)                            *)

\* C23: a step in which set_dispatch accepts a request sets the asset's
\* setpoint_mw to mw and replaces the asset's last dispatch by a fresh
\* accepted dispatch with clamped = req.clamped; the asset's soc_mwhr and
\* current_mw, every other asset's state and last dispatch, the telemetry
\* cache, the stream registry, the pending map and the mailboxes are
\* unchanged.
C23_AcceptedFrame ==
    [][\A h \in Slots :
          AcceptStep(h)
          => LET a == req[h].asset_id
             IN  /\ DOMAIN state' = DOMAIN state
                 /\ DOMAIN dispatches' = DOMAIN dispatches
                 /\ state'[a].setpoint_mw = req[h].mw
                 /\ state'[a].soc_mwhr = state[a].soc_mwhr
                 /\ state'[a].current_mw = state[a].current_mw
                 /\ dispatches'[a].asset_id = a
                 /\ dispatches'[a].mw = req[h].mw
                 /\ dispatches'[a].status = "accepted"
                 /\ dispatches'[a].clamped = req[h].clamped
                 /\ dispatches'[a].id > uuids
                 /\ \A b \in DOMAIN state \ {a} :
                       state'[b] = state[b] /\ dispatches'[b] = dispatches[b]
                 /\ UNCHANGED <<latest, agent_streams, pending_setpoints, chan>>]_vars

\* A site dispatch's clamped allocation for asset 2 has just been accepted
\* while asset 1 carries the setpoint of the allocation accepted before it
C23_Witness ==
    \E h \in Slots :
        /\ req[h].pc = "push"
        /\ req[h].asset_id = 2
        /\ req[h].clamped
        /\ dispatches[2] = req[h].dispatch
        /\ dispatches[2].clamped
        /\ state[2].setpoint_mw = req[h].mw
        /\ dispatches[1].id > 0
        /\ state[1].setpoint_mw = dispatches[1].mw

----------------------------------------------------------------------------
(* Boundary clamp of the tick (SpecTick)                                   *)

\* the boundary clamp fires in the tick that led to the current state
ClampFired ==
    LET cur == ramp_step(tkAsset, tkPrev, tkDt)
    IN  at_boundary(tkAsset, soc_step(tkAsset, tkPrev.soc_mwhr, cur, tkDt), cur)

\* C24: after a tick the asset is neither discharging with its SOC within
\* eps of min_soc nor charging with its SOC within eps of max_soc, and
\* when the boundary clamp fired both setpoint_mw and current_mw are zero.
C24_NoWrongWayAtBoundary ==
    tkTicks > 0
    => /\ ~(/\ RLe(tkState.soc_mwhr, RAdd(soc_bounds(tkAsset)[1], eps))
            /\ RGt(tkState.current_mw, R0))
       /\ ~(/\ RGe(tkState.soc_mwhr, RSub(soc_bounds(tkAsset)[2], eps))
            /\ RLt(tkState.current_mw, R0))
       /\ ClampFired => (tkState.setpoint_mw = R0 /\ tkState.current_mw = R0)

\* A tick took a charging asset to its upper SOC boundary and the clamp
\* zeroed a non-zero setpoint
C24_Witness ==
    /\ tkTicks > 0
    /\ ClampFired
    /\ RLt(tkPrev.setpoint_mw, R0)
    /\ RLt(ramp_step(tkAsset, tkPrev, tkDt), R0)
    /\ tkState.setpoint_mw = R0
    /\ RGe(tkState.soc_mwhr, RSub(soc_bounds(tkAsset)[2], eps))

----------------------------------------------------------------------------
(* Lock discipline of the handlers and receive tasks: SpecLock.            *)
(* A code path is the sequence of lock acquisitions, guard drops and       *)
(* awaits of I/O that a task goes through, in program order.  AppState's   *)
(* locks are tokio RwLocks: sim, latest, agent_streams (streams),          *)
(* pending_setpoints (pending) and soc_state.                              *)

Acq(lock, mode) == [op |-> "acquire", on |-> lock, mode |-> mode]
Rel(lock) == [op |-> "release", on |-> lock, mode |-> "-"]
Await(io) == [op |-> "await", on |-> io, mode |-> "-"]

\* http.rs 565-940: the code paths of a dispatch handler.
\*   gate (689-738): handle_single_dispatch up to drop(sim)
\*   lookup (914-921): push_setpoint_to_agent up to the registry lookup
\*   park (753-757): pending_setpoints.write().await.insert(..)
\*   rejected (761-787): the Err arm reads the peer from the registry
\*   sent (740-759, 914-940): an accepted dispatch is journalled, then its
\*     Setpoint is sent with the `streams` guard alive until
\*     push_setpoint_to_agent returns
\*   send_failed, parked: parked when the send fails or there is no stream
\*   site (589-613): create_dispatch gathers a site's online assets
\* The first is the handler without drop(sim) at line 738.
HandlerPath_sim_held(name) ==
    LET gate_ops == <<Acq("sim", "read"), Rel("sim"), Acq("latest", "read"),
                      Rel("latest"), Acq("sim", "write")>>
        lookup_ops == <<Acq("streams", "read")>>
        park_ops == <<Acq("pending", "write"), Rel("pending")>>
        sent_ops == gate_ops \o <<Await("journal")>> \o lookup_ops
                        \o <<Await("mailbox"), Rel("streams")>>
    IN  CASE name = "rejected" ->
                 gate_ops \o <<Acq("streams", "read"), Rel("streams"), Rel("sim")>>
          [] name = "sent" -> sent_ops \o <<Rel("sim")>>
          [] name = "send_failed" -> sent_ops \o park_ops \o <<Rel("sim")>>
          [] name = "parked" ->
                 gate_ops \o <<Await("journal")>> \o lookup_ops \o <<Rel("streams")>>
                     \o park_ops \o <<Rel("sim")>>
          [] OTHER -> <<Acq("streams", "read"), Rel("streams"), Acq("sim", "read"), Rel("sim")>>

HandlerPath(name) ==
    LET gate_ops == <<Acq("sim", "read"), Rel("sim"), Acq("latest", "read"),
                      Rel("latest"), Acq("sim", "write"), Rel("sim")>>
        lookup_ops == <<Acq("sim", "read"), Rel("sim"), Acq("streams", "read")>>
        park_ops == <<Acq("pending", "write"), Rel("pending")>>
        sent_ops == gate_ops \o <<Await("journal")>> \o lookup_ops
                        \o <<Await("mailbox"), Rel("streams")>>
    IN  CASE name = "rejected" -> gate_ops \o <<Acq("streams", "read"), Rel("streams")>>
          [] name = "sent" -> sent_ops
          [] name = "send_failed" -> sent_ops \o park_ops
          [] name = "parked" ->
                 gate_ops \o <<Await("journal")>> \o lookup_ops \o <<Rel("streams")>>
                     \o park_ops
          [] OTHER -> <<Acq("streams", "read"), Rel("streams"), Acq("sim", "read"), Rel("sim")>>

\* grpc.rs 94-723: the code paths of a receive task.
\*   register (132-184): one descriptor of a Register frame; with a
\*     pending entry (register_drain) the guard of
\*     pending_setpoints.write(), a temporary of the `if let`, lives
\*     across the send
\*   telemetry (354-362, 682-723): handle_agent_telemetry and
\*     maybe_emit_soc_event
\*   cleanup (290-310): the disconnect cleanup of one asset
ReceivePath(name) ==
    CASE name = "register" ->
             <<Acq("streams", "write"), Rel("streams"), Await("journal"),
               Acq("pending", "write"), Rel("pending")>>
      [] name = "register_drain" ->
             <<Acq("streams", "write"), Rel("streams"), Await("journal"),
               Acq("pending", "write"), Await("mailbox"), Rel("pending")>>
      [] name = "telemetry" ->
             <<Acq("latest", "write"), Rel("latest"), Await("journal"),
               Acq("sim", "read"), Rel("sim"), Acq("soc_state", "write"),
               Await("journal"), Rel("soc_state")>>
      [] OTHER -> <<Acq("streams", "write"), Rel("streams"), Await("journal")>>

Handlers == {"handler1", "handler2"}
HandlerPaths == {"rejected", "sent", "send_failed", "parked", "site"}
ReceivePaths == {"register", "register_drain", "telemetry", "cleanup"}

PathOf(name) == IF name \in HandlerPaths THEN HandlerPath(name) ELSE ReceivePath(name)

PathsOf(t) == IF t \in Handlers THEN HandlerPaths ELSE ReceivePaths

Running(t) == lk[t].path # "none"

\* the step task t is about to take
NextOp(t) == PathOf(lk[t].path)[lk[t].pc]

\* the mode in which t holds the lock: that of its last acquisition with
\* no release after it
HeldMode(t, lock) ==
    LET path == PathOf(lk[t].path)
        acqs == {i \in 1..(lk[t].pc - 1) :
                    /\ path[i].op = "acquire"
                    /\ path[i].on = lock
                    /\ \A j \in (i + 1)..(lk[t].pc - 1) : path[j] # Rel(lock)}
    IN  IF ~Running(t) \/ acqs = {} THEN "none"
        ELSE path[CHOOSE i \in acqs : TRUE].mode

Locks == {"sim", "latest", "streams", "pending", "soc_state"}
Holding(t) == {lock \in Locks : HeldMode(t, lock) # "none"}

\* tokio::sync::RwLock: a writer excludes everyone, a reader excludes
\* writers
Conflicts(held, wanted) == held # "none" /\ (held = "write" \/ wanted = "write")

\* t waits for a lock that u holds
WaitsFor(t, u) ==
    /\ t # u
    /\ Running(t)
    /\ NextOp(t).op = "acquire"
    /\ Conflicts(HeldMode(u, NextOp(t).on), NextOp(t).mode)

\* a request or frame arrives: the task starts one of its code paths
LockStart(t, name) ==
    /\ ~Running(t)
    /\ lk' = [lk EXCEPT ![t] = [path |-> name, pc |-> 1]]
    /\ UNCHANGED <<tickVars, allocVars, headVars, socVars, journalVars, bootVars,
                   siteVars, cleanups, ag>>

\* the task takes its next step: an acquisition once no other task holds
\* the lock in a conflicting mode, a guard drop, or the completion of an
\* awaited I/O
LockStep(t) ==
    /\ Running(t)
    /\ \A u \in LockTasks : ~WaitsFor(t, u)
    /\ lk' = [lk EXCEPT ![t] = IF lk[t].pc = Len(PathOf(lk[t].path))
                               THEN [path |-> "none", pc |-> 1]
                               ELSE [path |-> lk[t].path, pc |-> lk[t].pc + 1]]
    /\ UNCHANGED <<tickVars, allocVars, headVars, socVars, journalVars, bootVars,
                   siteVars, cleanups, ag>>

InitLock ==
    /\ InitHead
    /\ TickIdle
    /\ AllocIdle
    /\ SideIdle

NextLock ==
    \/ \E t \in LockTasks : \E name \in PathsOf(t) : LockStart(t, name)
    \/ \E t \in LockTasks : LockStep(t)

SpecLock == InitLock /\ [][NextLock]_vars

----------------------------------------------------------------------------
(* Claims about the lock discipline (SpecLock)                             *)

\* C25: a dispatch handler that awaits a journal append or the send of a
\* Setpoint into a mailbox holds none of the shared locks.
C25_NoLockAcrossAwait ==
    \A t \in Handlers :
        (Running(t) /\ NextOp(t).op = "await") => Holding(t) = {}

\* a chain of tasks each waiting for a lock the next one holds leads from
\* t back to t
InWaitCycle(t) ==
    \E u \in LockTasks :
        /\ WaitsFor(t, u)
        /\ \/ WaitsFor(u, t)
           \/ \E v \in LockTasks : WaitsFor(u, v) /\ WaitsFor(v, t)

\* C26: a task that acquires the stream-registry lock holds neither the
\* pending nor the simulator-state lock, a task that acquires the pending
\* lock does not hold the simulator-state lock, and no tasks wait for one
\* another's locks in a cycle.
C26_LockOrderNoCycle ==
    \A t \in LockTasks :
        /\ (Running(t) /\ NextOp(t).op = "acquire" /\ NextOp(t).on = "streams")
           => Holding(t) \cap {"pending", "sim"} = {}
        /\ (Running(t) /\ NextOp(t).op = "acquire" /\ NextOp(t).on = "pending")
           => "sim" \notin Holding(t)
        /\ ~InWaitCycle(t)

\* The receive task waits for the registry's write lock, which a handler
\* holds for reading while it sends, and the other handler holds the
\* simulator's write lock
C26_Witness ==
    /\ WaitsFor("receive1", "handler1")
    /\ NextOp("receive1").on = "streams"
    /\ HeldMode("handler1", "streams") = "read"
    /\ NextOp("handler1") = Await("mailbox")
    /\ HeldMode("handler2", "sim") = "write"

----------------------------------------------------------------------------
(* Site dispatch for a site with no online asset (SpecSite)                *)

\* create_dispatch starts in slot h in this step
CreateStep(h) ==
    /\ requests' = requests + 1
    /\ req[h].pc = "idle"
    /\ \A k \in Slots : k < h => req[k].pc # "idle"

\* the request served in slot h names a site (a uuid) and no asset
SiteRequest(r) == ~field_set(r.asset_id) /\ field_set(r.site_id) /\ r.site_id # NotUuid

\* C28: a site dispatch for a site with no asset in the stream registry
\* is answered with the no-online-assets error, and the step changes no
\* asset's state or last dispatch, no pending entry, no mailbox and
\* starts no sub-dispatch.
C28_NoOnlineAssetsChangesNothing ==
    [][\A h \in Slots :
          (/\ CreateStep(h)
           /\ SiteRequest(http'[h])
           /\ \A a \in DOMAIN agent_streams : agent_streams[a].site_id # http'[h].site_id)
          => /\ http'[h].status = "bad_request"
             /\ http'[h].reason = "no online assets"
             /\ req'[h].pc = "idle"
             /\ UNCHANGED <<state, dispatches, pending_setpoints, chan, agent_streams,
                            jr_dispatches>>]_vars

\* After a dispatch for asset 1 was accepted, a dispatch for site 7, which
\* has no asset online while site 1 has, was refused
C28_Witness ==
    \E h \in Slots :
        /\ http[h].status = "bad_request"
        /\ http[h].reason = "no online assets"
        /\ http[h].site_id = 7
        /\ Has(agent_streams, 1)
        /\ dispatches[1].id > 0
        /\ state[1].setpoint_mw = dispatches[1].mw

----------------------------------------------------------------------------
(* The clamped flag of a site allocation (SpecAlloc).                      *)

Rows(r) == alRuns[r].allocations

Moved(row) == GtTol(RSub(row.mw_raw, row.mw))

\* C29, first half: an allocation is marked clamped exactly when
\* |raw_i - mw_i| > 1e-6.
FlagIffMoved ==
    \A r \in 1..Len(alRuns) : \A i \in 1..Len(Rows(r)) :
        Rows(r)[i].clamped <=> Moved(Rows(r)[i])

\* |sum_i mw_i - mw_total| > n * 1e-6 for the n allocations of the response
OffByMoreThanEach(allocations) ==
    LET off == RAbs(RSub(AllocSum(allocations), alTotal))
    IN  RGt(off, RMul(Z(Len(allocations)), tolerance))

\* C29 as stated: the flag is set exactly when |raw_i - mw_i| > 1e-6, and a
\* response whose sum differs from mw_total by more than 1e-6 has at least
\* one allocation marked clamped.
C29_UnconservedIsFlagged ==
    /\ FlagIffMoved
    /\ \A r \in 1..Len(alRuns) :
           (PositiveCapacity /\ ~Conserved(Rows(r)))
           => \E i \in 1..Len(Rows(r)) : Rows(r)[i].clamped

\* C29 amended: the flag is set exactly when |raw_i - mw_i| > 1e-6, and a
\* response of n allocations over positive total capacity whose sum differs
\* from mw_total by more than n * 1e-6 has at least one allocation marked
\* clamped.
C29_FarUnconservedIsFlagged ==
    /\ FlagIffMoved
    /\ \A r \in 1..Len(alRuns) :
           (PositiveCapacity /\ OffByMoreThanEach(Rows(r)))
           => \E i \in 1..Len(Rows(r)) : Rows(r)[i].clamped

\* the repair loop stopped short of mw_total by more than n * 1e-6 and an
\* allocation of the response is marked clamped while another is not
C29_Witness ==
    \E r \in 1..Len(alRuns) :
        /\ PositiveCapacity
        /\ OffByMoreThanEach(Rows(r))
        /\ \E i, j \in 1..Len(Rows(r)) :
               Rows(r)[i].clamped /\ ~Rows(r)[j].clamped

----------------------------------------------------------------------------
(* SpecAck: dispatches to a registered agent that acknowledges the         *)
(* Setpoints it has received.                                              *)

\* edge_agent main.rs 282-296: the DispatchAck written for a Setpoint
DispatchAck(sp) == [dispatch_id |-> sp.dispatch_id, status |-> "applied"]

\* edge_agent main.rs 244-269, 298-310: the agent applies the Setpoint it
\* took out of the mailbox last and sends its ack
AgentSendAck(c) ==
    /\ chan[c].rx_open
    /\ chan[c].nread > 0
    /\ inbound[c] = <<>>
    /\ inbound' = [inbound EXCEPT ![c] = Append(@, DispatchAck(chan[c].sent[chan[c].nread]))]
    /\ UNCHANGED <<tickVars, allocVars, sideVars, simVars, latest, agent_streams,
                   pending_setpoints, conns, chan, task, registers, req, requests,
                   reg_mark>>

\* grpc.rs 655-680: `UPDATE dispatches SET ack_status .. WHERE id = $4`,
\* which finds a row only if the dispatch was journalled
handle_dispatch_ack(ack) ==
    IF db /\ ack.dispatch_id \in jr_attempts THEN jr_acked \cup {ack.dispatch_id}
    ELSE jr_acked

\* grpc.rs 257-262: the receive task takes a DispatchAck frame
TaskDispatchAck(c) ==
    /\ task[c].pc = "recv"
    /\ inbound[c] # <<>>
    /\ "dispatch_id" \in DOMAIN Head(inbound[c])
    /\ inbound' = [inbound EXCEPT ![c] = Tail(@)]
    /\ jr_acked' = handle_dispatch_ack(Head(inbound[c]))
    /\ UNCHANGED <<tickVars, allocVars, simVars, latest, agent_streams, pending_setpoints,
                   conns, chan, task, registers, req, requests, reg_mark, socVars, db,
                   jr_telemetry, jr_dispatches, jr_attempts, jr_sessions, bootVars, siteVars,
                   cleanups, lk, ag>>

NextAck ==
    \/ \E h \in Slots, a \in CatalogueIds : SubmitDispatch(h, a, MwLive(requests + 1))
    \/ \E h \in Slots : GateDispatch(h)
    \/ \E h \in Slots : PushSetpoint(h)
    \/ \E h \in Slots : ParkSetpoint(h)
    \/ \E c \in Conns : AgentRecv(c)
    \/ \E c \in Conns : AgentSendAck(c)
    \/ \E c \in Conns : TaskDispatchAck(c)
    \/ \E c \in Conns : AgentClose(c)
    \/ \E c \in Conns : TaskStreamEnd(c)
    \/ \E c \in Conns : TaskCleanup(c)
    \/ Accept
    \/ \E c \in Conns, ids \in RegisterLists : AgentSendRegister(c, ids)
    \/ \E c \in Conns : TaskRegister(c)
    \/ \E c \in Conns : TaskRegisterNext(c)
    \/ \E c \in Conns : TaskDrainPending(c)

SpecAck == InitTel /\ [][NextAck]_vars

----------------------------------------------------------------------------
(* Claims about dispatch acknowledgements (SpecAck).                       *)

\* ids of the dispatches whose Setpoint was put into a mailbox or parked
Forwarded ==
    UNION {{chan[c].sent[i].dispatch_id : i \in 1..Len(chan[c].sent)} : c \in Conns}
        \cup {pending_setpoints[a].id : a \in DOMAIN pending_setpoints}

\* the receive task of connection c processes a DispatchAck in this step
AckStep(c) ==
    /\ inbound[c] # <<>>
    /\ "dispatch_id" \in DOMAIN Head(inbound[c])
    /\ inbound'[c] = Tail(inbound[c])

\* C30: on a headend with a journal, the append of an accepted dispatch has
\* been attempted by the time its Setpoint is enqueued on a stream or parked,
\* and so by the time a DispatchAck for it is processed.
C30_AppendBeforeSetpointAndAck ==
    [][/\ db' => Forwarded' \subseteq jr_attempts'
       /\ \A c \in Conns :
              (AckStep(c) /\ db) => Head(inbound[c]).dispatch_id \in jr_attempts]_vars

\* both dispatches were acknowledged in the journal, one of them after its
\* parked Setpoint was delivered to a new connection
C30_Witness ==
    /\ db
    /\ jr_acked = {1, 2}
    /\ chan[2].nread > 0
    /\ chan[1].nread > 0

----------------------------------------------------------------------------
(* SpecSess: registrations and disconnects on a headend with or without a  *)
(* journal, starting with assets 1 and 2 registered on connection 1.       *)

NextSess ==
    \/ Accept
    \/ \E c \in Conns, ids \in RegisterLists : AgentSendRegister(c, ids)
    \/ \E c \in Conns : TaskRegister(c)
    \/ \E c \in Conns : TaskRegisterNext(c)
    \/ \E c \in Conns : TaskDrainPending(c)
    \/ \E c \in Conns : AgentClose(c)
    \/ \E c \in Conns : TaskStreamEnd(c)
    \/ \E c \in Conns : TaskCleanup(c)

SpecSess == InitTel /\ [][NextSess]_vars

\* C31: the journal holds at most one open session per asset at any time,
\* also when the same asset registers twice without a disconnect between.
C31_AtMostOneOpenSession ==
    \A a \in CatalogueIds : jr_sessions[a] <= 1

----------------------------------------------------------------------------
(* SpecHydr: dispatches on a headend whose simulator was constructed from  *)
(* the catalogue and hydrated from the journal's last telemetry rows.      *)

\* The last telemetry row the journal may hold for an asset: inside the
\* asset's bounds or beyond them on either side
HydrateRows(asset) ==
    {TelemetryRow(soc, mw[1], mw[2]) :
        soc \in {RSub(soc_bounds(asset)[1], Z(1)), initial_soc_mwhr(asset),
                 RAdd(soc_bounds(asset)[2], Z(1))},
        mw \in {<<R0, R0>>, <<Z(50), Z(-50)>>, <<asset.min_mw, asset.max_mw>>}}

\* main.rs 365-378: Simulator::from_assets, then hydrate_sim_state for the
\* assets the journal has a row for
InitHydr ==
    /\ db = TRUE
    /\ \E rows \in [CatalogueIds -> {None} \cup UNION {HydrateRows(Catalogue[a]) : a \in CatalogueIds}] :
          /\ \A a \in CatalogueIds : rows[a] \in {None} \cup HydrateRows(Catalogue[a])
          /\ jr_telemetry = [a \in {x \in CatalogueIds : rows[x] # None} |-> rows[a]]
    /\ state = [a \in CatalogueIds |->
                   IF Has(jr_telemetry, a)
                   THEN hydrate_state(Catalogue[a], jr_telemetry[a].soc_mwhr,
                                      jr_telemetry[a].current_mw, jr_telemetry[a].setpoint_mw)
                   ELSE initial_state(Catalogue[a])]
    /\ jr_dispatches = EmptyMap
    /\ jr_attempts = {}
    /\ jr_acked = {}
    /\ jr_sessions = NoSessions
    /\ InitApp
    /\ TickIdle
    /\ AllocIdle
    /\ SocIdle
    /\ BootIdle
    /\ SiteIdle
    /\ LockIdle
    /\ AgentIdle

NextHydr ==
    \/ \E h \in Slots, r \in Requests : SubmitDispatch(h, r[1], r[2])
    \/ \E h \in Slots : GateDispatch(h)
    \/ \E h \in Slots : PushSetpoint(h)
    \/ \E h \in Slots : ParkSetpoint(h)

SpecHydr == InitHydr /\ [][NextHydr]_vars

StateInBounds(a) ==
    /\ InRange(state[a].soc_mwhr, soc_bounds(Catalogue[a])[1], soc_bounds(Catalogue[a])[2])
    /\ InRange(state[a].current_mw, Catalogue[a].min_mw, Catalogue[a].max_mw)
    /\ InRange(state[a].setpoint_mw, Catalogue[a].min_mw, Catalogue[a].max_mw)

\* C32: in every reachable headend state each asset has soc_mwhr within
\* [min_soc, max_soc] and current_mw and setpoint_mw within [min_mw, max_mw]:
\* at construction, after hydration from any journal row and after any
\* sequence of accepted and rejected dispatches.
C32_StateWithinBounds ==
    \A a \in CatalogueIds : StateInBounds(a)

\* asset 1 was hydrated from a row beyond its bounds on every field and a
\* dispatch for it was then accepted; asset 2 has its construction state and
\* a request for it was rejected
C32_Witness ==
    /\ Has(jr_telemetry, 1)
    /\ RGt(jr_telemetry[1].soc_mwhr, soc_bounds(Catalogue[1])[2])
    /\ RGt(jr_telemetry[1].current_mw, Catalogue[1].max_mw)
    /\ state[1].current_mw = Catalogue[1].max_mw
    /\ dispatches[1].id > 0
    /\ state[1].setpoint_mw = dispatches[1].mw
    /\ ~Has(jr_telemetry, 2)
    /\ state[2] = initial_state(Catalogue[2])
    /\ \E h \in Slots : http[h].status = "bad_request"

----------------------------------------------------------------------------
(* SpecRead: the read paths (bootstrap, GET /telemetry/{id}) on a hydrated *)
(* headend whose cache is filled by agent telemetry.                       *)

ReadIds == {1, 2, 9}

\* http.rs 445-462: latest_telemetry answers from the cache, else with the
\* snapshot of a synthetic zero-dt tick, else 404
latest_telemetry(id) ==
    /\ boot.pc = "idle"
    /\ boots < MaxBoots
    /\ boots' = boots + 1
    /\ boot' = [IdleBoot EXCEPT
                  !.ids = <<id>>,
                  !.resp = IF Has(latest, id)
                           THEN [status |-> "ok", assets |-> <<telemetry_to_proto(latest[id])>>]
                           ELSE IF Has(Catalogue, id) /\ Has(state, id)
                           THEN [status |-> "ok",
                                 assets |-> <<tick_asset(Catalogue[id], state[id], R0)>>]
                           ELSE BootstrapError("not_found")]
    /\ state' = IF Has(latest, id) THEN state ELSE sim_state_after_synthetic({id})
    /\ UNCHANGED <<tickVars, allocVars, dispatches, uuids, latest, agent_streams,
                   pending_setpoints, connVars, req, requests, reg_mark, socVars, journalVars,
                   siteVars, cleanups, lk, ag>>

NextRead ==
    \/ \E ids \in BootLists : BootstrapLatest(ids)
    \/ \E query_ok \in BOOLEAN : BootstrapJournal(query_ok)
    \/ \E query_ok \in BOOLEAN : BootstrapSim(query_ok)
    \/ \E id \in ReadIds : latest_telemetry(id)
    \/ \E t \in BootSamples :
          samples < MaxBootSamples /\ HandleTelemetryUnjournaled(t[1], t[2])

SpecRead == InitHydr /\ [][NextRead]_vars

\* a step of build_bootstrap_response or of latest_telemetry
ReadStep == boot' # boot \/ boots' # boots

\* C33: build_bootstrap and latest_telemetry leave every asset's soc_mwhr,
\* current_mw and setpoint_mw, the last dispatches, the latest cache, the
\* stream registry and the pending map unchanged, also when they fall back
\* to the synthetic zero-dt tick.
C33_ReadsChangeNothing ==
    [][ReadStep => UNCHANGED <<state, dispatches, latest, agent_streams,
                               pending_setpoints>>]_vars

\* latest_telemetry answered for asset 1 with the snapshot of a synthetic
\* tick that the boundary clamp zeroed, while the asset's state still has
\* its output at max_mw
C33_Witness ==
    /\ boot.pc = "idle"
    /\ boot.ids = <<1>>
    /\ boot.resp.status = "ok"
    /\ "current_mw" \in DOMAIN boot.resp.assets[1]
    /\ boot.resp.assets[1].current_mw = R0
    /\ state[1].current_mw = Catalogue[1].max_mw

----------------------------------------------------------------------------
(* SpecAgent: the edge agent: its connect loop, the Setpoints it applies   *)
(* and the expiry timers of their durations.                               *)

MaxSetpoints == 2
MaxAttempts == 3

\* AssetRuntime.asset of a local asset
local_asset(a) == IF a = 5 THEN [SitePool[a] EXCEPT !.site_id = 2] ELSE SitePool[a]

\* proto Setpoint as the agent reads it: asset_id a string, site_id and
\* duration_s optional, dispatch_id the number of the Setpoint
AgentSetpoints(n) ==
    {[asset_id |-> a, site_id |-> st, mw |-> Z(35), duration_s |-> d, dispatch_id |-> n] :
        a \in {Blank, NotUuid, 1, 9}, st \in {Absent, NotUuid, 1, 7}, d \in {Absent, 60}}

local_site_assets(site_id) ==
    LET ids == {a \in LocalIds : local_asset(a).site_id = site_id}
        any == CHOOSE f \in Orders(ids) : TRUE
    IN  sort_by_id([i \in 1..Cardinality(ids) |-> local_asset(any[i])])

resolve_targets_site_first(sp) ==
    IF sp.site_id > 0 /\ local_site_assets(sp.site_id) # <<>>
    THEN local_site_assets(sp.site_id)
    ELSE IF sp.asset_id \in LocalIds THEN <<local_asset(sp.asset_id)>>
    ELSE <<>>

\* edge_agent main.rs 569-605: a parseable asset_id that is a local asset
\* wins; else the local assets of a parseable site_id, sorted by id
resolve_targets(sp) ==
    IF field_set(sp.asset_id) /\ sp.asset_id # NotUuid /\ sp.asset_id \in LocalIds
    THEN <<local_asset(sp.asset_id)>>
    ELSE IF field_set(sp.site_id) /\ sp.site_id # NotUuid
    THEN local_site_assets(sp.site_id)
    ELSE <<>>

AgentFrame == UNCHANGED <<tickVars, allocVars, headVars, socVars, journalVars, bootVars,
                          siteVars, cleanups, lk>>

\* edge_agent main.rs 100-109, 244-262: the setpoint task takes a Setpoint
\* off the stream; apply_setpoint resolves its targets and allocations and
\* returns at once when there is no target
AgentRecvSetpoint(sp) ==
    /\ ag.link = "streaming"
    /\ ag.cur = None
    /\ ag.applied < MaxSetpoints
    /\ LET targets == resolve_targets(sp)
       IN  ag' = [ag EXCEPT
                    !.applied = @ + 1,
                    !.last = sp,
                    !.cur = IF targets = <<>> THEN None
                            ELSE [sp |-> sp, targets |-> targets,
                                  allocations |-> compute_allocations(targets, sp.mw),
                                  idx |-> 1, pc |-> "write"]]
    /\ AgentFrame

\* edge_agent main.rs 912-915: `sim.setpoint_mw = mw` under the sim lock
AgentSetpointWrite ==
    /\ ag.cur # None
    /\ ag.cur.pc = "write"
    /\ LET a == ag.cur.targets[ag.cur.idx].id
       IN  ag' = [ag EXCEPT !.setpoint[a] = ag.cur.allocations[ag.cur.idx],
                            !.owner[a] = ag.applied,
                            !.cur.pc = "timer"]
    /\ AgentFrame

abort_timer(tasks, k) ==
    IF k # 0 /\ tasks[k].st = "sleeping" THEN [tasks EXCEPT ![k].st = "aborted"] ELSE tasks

\* edge_agent main.rs 917-933, 266-269, 282-310: the previous timer is
\* taken and aborted, a timer is spawned for duration_s and stored, and
\* the DispatchAck of the asset is sent
AgentTimerAck ==
    /\ ag.cur # None
    /\ ag.cur.pc = "timer"
    /\ LET a == ag.cur.targets[ag.cur.idx].id
           sp == ag.cur.sp
           aborted == abort_timer(ag.tasks, ag.timer[a])
           timed == sp.duration_s # Absent
           ack == [dispatch_id |-> sp.dispatch_id, asset_id |-> a]
           over == ag.cur.idx = Len(ag.cur.targets)
       IN  ag' = [ag EXCEPT
                    !.tasks = IF timed
                              THEN Append(aborted, [asset |-> a, gen |-> ag.applied,
                                                    st |-> "sleeping"])
                              ELSE aborted,
                    !.timer[a] = IF timed THEN Len(ag.tasks) + 1 ELSE 0,
                    !.acks = IF field_set(sp.dispatch_id) THEN Append(@, ack) ELSE @,
                    !.sent = IF field_set(sp.dispatch_id) /\ ag.link = "streaming"
                             THEN Append(@, ack) ELSE @,
                    !.cur = IF over THEN None
                            ELSE [ag.cur EXCEPT !.idx = @ + 1, !.pc = "write"]]
    /\ AgentFrame

\* edge_agent main.rs 921-930: the spawned task after its sleep:
\* `sim.setpoint_mw = 0.0`
TimerFire(k) ==
    /\ ag.tasks[k].st = "sleeping"
    /\ ag' = [ag EXCEPT !.tasks[k].st = "done", !.setpoint[ag.tasks[k].asset] = R0]
    /\ AgentFrame

\* edge_agent main.rs 957-1004: Register naming every local asset, sorted
AgentRegister == [assets |-> sort_by_id([i \in 1..Cardinality(LocalIds) |->
                    local_asset((CHOOSE f \in Orders(LocalIds) : TRUE)[i])])]

\* edge_agent main.rs 80-98, 200-208: one round of run_grpc_loop: connect,
\* stream, send_registration.  A failed connect or stream falls through to
\* the backoff sleep; a failed send_registration is `continue`
AgentConnect(outcome) ==
    /\ ag.link = "down"
    /\ ag.attempts < MaxAttempts
    /\ ag' = [ag EXCEPT
                !.attempts = @ + 1,
                !.waited = FALSE,
                !.link = CASE outcome = "ok" -> "streaming"
                           [] outcome = "register_failed" -> "down"
                           [] OTHER -> "backoff",
                !.sent = IF outcome = "ok" THEN <<AgentRegister>> ELSE <<>>]
    /\ AgentFrame

\* edge_agent main.rs 140-199: a send of the tick loop fails because the
\* channel is closed; the loop is left
AgentStreamBreak ==
    /\ ag.link = "streaming"
    /\ ag' = [ag EXCEPT !.link = "backoff"]
    /\ AgentFrame

\* edge_agent main.rs 210-211: `sleep(Duration::from_secs(2))`
AgentBackoff ==
    /\ ag.link = "backoff"
    /\ ag' = [ag EXCEPT !.link = "down", !.waited = TRUE]
    /\ AgentFrame

InitAgent ==
    /\ AgentIdle
    /\ InitHead
    /\ TickIdle
    /\ AllocIdle
    /\ SocIdle
    /\ NoJournal
    /\ BootIdle
    /\ SiteIdle
    /\ LockIdle

NextAgent ==
    \/ \E outcome \in {"ok", "connect_failed", "stream_failed", "register_failed"} :
          AgentConnect(outcome)
    \/ AgentStreamBreak
    \/ AgentBackoff
    \/ \E sp \in AgentSetpoints(ag.applied + 1) : AgentRecvSetpoint(sp)
    \/ AgentSetpointWrite
    \/ AgentTimerAck
    \/ \E k \in 1..Len(ag.tasks) : TimerFire(k)

SpecAgent == InitAgent /\ [][NextAgent]_vars

\* ids of the targets of the apply_setpoint in progress
TargetIds(cur) == IF cur = None THEN {} ELSE {cur.targets[i].id : i \in 1..Len(cur.targets)}

\* the assets a Setpoint is for: the local asset it names, else the local
\* assets of the site it names
ExpectedTargets(sp) ==
    IF sp.asset_id \in LocalIds THEN {sp.asset_id}
    ELSE {a \in LocalIds : local_asset(a).site_id = sp.site_id}

AcksFor(acks, a) == Cardinality({i \in 1..Len(acks) : acks[i].asset_id = a})

\* C34: a Setpoint naming a local asset is applied to that asset only, also
\* when it carries a site_id; one naming no local asset but a site with
\* local assets is applied to all local assets of that site; one matching
\* neither changes no setpoint, starts no timer and sends no DispatchAck.
\* Only the targets of the Setpoint being applied get a setpoint, a timer
\* or an ack, and every target has got its setpoint when the apply ends.
C34_SetpointTargets ==
    [][/\ (ag'.applied = ag.applied + 1) =>
            /\ TargetIds(ag'.cur) = ExpectedTargets(ag'.last)
            /\ ag'.setpoint = ag.setpoint
            /\ ag'.timer = ag.timer
            /\ ag'.tasks = ag.tasks
            /\ ag'.acks = ag.acks
       /\ \A a \in LocalIds :
            (\/ ag'.owner[a] # ag.owner[a]
             \/ ag'.timer[a] # ag.timer[a]
             \/ AcksFor(ag'.acks, a) # AcksFor(ag.acks, a))
            => a \in TargetIds(ag.cur)
       /\ (ag.cur # None /\ ag'.cur = None) =>
            \A a \in TargetIds(ag.cur) : ag'.owner[a] = ag.applied
      ]_vars

\* a Setpoint for site 1 was split over assets 1 and 2, then one naming
\* asset 1 and site 1 was applied to asset 1 alone
C34_Witness ==
    /\ ag.applied = 2
    /\ ag.cur = None
    /\ ag.last.asset_id = 1
    /\ ag.last.site_id = 1
    /\ ag.owner[1] = 2
    /\ ag.owner[2] = 1
    /\ ag.owner[5] = 0

\* C40: a setpoint is reset to 0 only by the expiry timer of the Setpoint
\* that installed it: the timer of an earlier Setpoint never resets the
\* setpoint installed by a later one.
C40_OnlyOwnTimerResets ==
    [][\A k \in 1..Len(ag.tasks) :
          (ag.tasks[k].st = "sleeping" /\ ag'.tasks[k].st = "done")
          => ag.tasks[k].gen = ag.owner[ag.tasks[k].asset]
      ]_vars

\* C35: every connect attempt but the first is preceded by the backoff
\* sleep; the first frame of every new stream is the Register of all local
\* assets; the steps of the connect loop leave every setpoint as it was.
C35_BackoffRegisterRetain ==
    [][/\ (ag'.attempts = ag.attempts + 1 /\ ag.attempts > 0) => ag.waited
       /\ (ag'.link = "streaming" /\ ag.link # "streaming") =>
            /\ Len(ag'.sent) = 1
            /\ {ag'.sent[1].assets[i].id : i \in 1..Len(ag'.sent[1].assets)} = LocalIds
       /\ (ag'.link # ag.link \/ ag'.attempts # ag.attempts) =>
            ag'.setpoint = ag.setpoint
      ]_vars

----------------------------------------------------------------------------
(* Registry, pending map and mailboxes under interleaving (Spec)           *)

\* C36: the registry entry of an asset that points at the mailbox of a
\* connection that is still open is not removed: the cleanup of an older
\* connection that once registered the same asset leaves it in place.
C36_OpenConnectionKeepsEntry ==
    [][\A a \in DOMAIN agent_streams :
          chan[agent_streams[a].tx].rx_open => a \in DOMAIN agent_streams'
      ]_vars

\* a handler holds an accepted dispatch of asset a that it has neither
\* enqueued nor parked yet
HandlerFor(a) ==
    \E h \in Slots : req[h].pc \in {"push", "park"} /\ req[h].dispatch.asset_id = a

\* C37: once every handler of an asset has handed its dispatch over, a
\* present pending entry is the most recently accepted dispatch of the
\* asset, last_dispatch[asset]; and a Register never takes out of the
\* pending map a dispatch older than one already enqueued for the agent.
C37_PendingIsLatestAccepted ==
    /\ [](\A a \in CatalogueIds :
            (Has(pending_setpoints, a) /\ ~HandlerFor(a))
            => pending_setpoints[a] = dispatches[a])
    /\ [][\A a \in CatalogueIds :
            (Has(pending_setpoints, a) /\ ~Has(pending_setpoints', a))
            => ~LaterEnqueued(a, pending_setpoints[a].id)]_vars

\* how many times the Setpoint of dispatch `id` is in the mailboxes ch
EnqueuedIn(ch, id) ==
    Cardinality(UNION {{<<c, i>> : i \in {j \in 1..Len(ch[c].sent) :
                                            ch[c].sent[j].dispatch_id = id}} : c \in Conns})
ParkedIn(pending, d) == Has(pending, d.asset_id) /\ pending[d.asset_id] = d

\* the handler in slot h answers its caller with success in this step
ReturnOk(h) == req[h].pc \in {"push", "park"} /\ req'[h].pc \notin {"push", "park"}

\* C38: when a per-asset submit returns success its dispatch is on exactly
\* one stream mailbox or is the pending entry of its asset, not both and
\* not neither; and no dispatch id is ever enqueued more than once.
C38_EnqueuedOrParkedOnce ==
    /\ [](\A id \in 1..MaxDispatches : EnqueuedIn(chan, id) <= 1)
    /\ [][\A h \in Slots :
            ReturnOk(h)
            => /\ EnqueuedIn(chan', req[h].dispatch.id) + 
                  (IF ParkedIn(pending_setpoints', req[h].dispatch) THEN 1 ELSE 0) = 1
               /\ http'[h].status = "ok"]_vars

\* dispatch 1 was enqueued on a stream and dispatch 2 parked; both
\* handlers have returned
C38_Witness ==
    /\ \A h \in Slots : req[h].pc = "idle"
    /\ uuids = 2
    /\ EnqueuedIn(chan, 1) = 1
    /\ EnqueuedIn(chan, 2) = 0
    /\ \E a \in CatalogueIds : Has(pending_setpoints, a) /\ pending_setpoints[a].id = 2

----------------------------------------------------------------------------
(* create_dispatch when agents declare their own site: SpecDecl.           *)

\* the site_id an agent may put in the descriptors of its Register: the
\* catalogue's site 1, or site 7
DeclaredSites == {1, 7}

\* grpc.rs 125-143: a headend without a journal on which the agent of
\* connection 1 has registered assets 1 and 2; the AgentStream of each
\* holds the site_id parsed from the descriptor the agent sent
InitDecl ==
    /\ state = from_assets_state
    /\ dispatches = from_assets_dispatches
    /\ uuids = 0
    /\ latest = EmptyMap
    /\ pending_setpoints = EmptyMap
    /\ inbound = [c \in Conns |-> <<>>]
    /\ req = [h \in Slots |-> IdleReq]
    /\ requests = 0
    /\ \E declared \in [CatalogueIds -> DeclaredSites] :
          agent_streams = [a \in CatalogueIds |-> [tx |-> 1, site_id |-> declared[a]]]
    /\ reg_mark = [a \in CatalogueIds |-> 0]
    /\ conns = 1
    /\ registers = 1
    /\ chan = [c \in Conns |->
                  IF c = 1 THEN [sent |-> <<>>, nread |-> 0, rx_open |-> TRUE]
                  ELSE UnusedChan]
    /\ task = [c \in Conns |->
                  IF c = 1 THEN [pc |-> "recv", todo |-> <<>>, cur |-> 2, asset_ids |-> <<1, 2>>]
                  ELSE UnusedTask]
    /\ NoJournal
    /\ TickIdle
    /\ AllocIdle
    /\ SocIdle
    /\ BootIdle
    /\ SiteIdle
    /\ LockIdle
    /\ AgentIdle

SpecDecl == InitDecl /\ [][NextSite]_vars

\* C39: every asset that has an allocation in the fan-out of a site
\* dispatch for site S has catalogue site_id S, whatever site_id its agent
\* declared in its Register frame.
C39_AllocatedAssetsAreOfTheSite ==
    \A h \in Slots : \A i \in 1..Len(site[h].allocations) :
        Catalogue[site[h].allocations[i].asset_id].site_id = http[h].site_id

====
